---- MODULE Spec2Model ----
(***************************************************************************)
(* Document lifecycle of the y-sweet server: the registry of live          *)
(* documents (Server.docs), load_doc / get_or_create_doc, the per-document *)
(* persistence worker and GC worker, websocket connections, HTTP updates,  *)
(* delete_document, copy_document and the cancellation token.              *)
(*                                                                         *)
(* Time is kept as countdown timers: Tick lets one unit of time pass,      *)
(* every pending tokio sleep counts down and every `now - last_save`       *)
(* counts up (saturating at checkpoint_freq, beyond which the code does    *)
(* not tell values apart).  A sleep may fire late, never early.            *)
(***************************************************************************)
EXTENDS Integers, FiniteSets, Sequences, TLC

\* ---------------------------------------------------------------- bounds
MaxInst == 2      \* DocWithSyncKv instances created in one run
MaxMut  == 2      \* updates applied in one run
Freq    == 2      \* checkpoint_freq, in ticks

DocIds  == {"d1"}
Insts   == 1..MaxInst
Procs   == {1, 2} \* request handlers / connections that can run at once
Muts    == 1..MaxMut

\* Server.doc_gc: documents are garbage collected (multi-document mode).
DocGc == TRUE

VARIABLES
    docs,       \* Server.docs: doc id -> instance in the map, 0 when absent
    store,      \* the object {doc_id}/data.ysweet: [ex, kv]
    ninst,      \* instances allocated so far
    inst,       \* per instance: the DocWithSyncKv (SyncKv map, flags, channel, refs)
    pw,         \* per instance: its doc_persistence_worker task
    gc,         \* per instance: the doc_gc_worker task spawned with it
    proc,       \* per handler: the request or connection it is running
    cancelled,  \* Server.cancellation_token
    nmut,       \* updates applied so far
    acked,      \* history: per doc id, updates applied to the registry entry before cancellation
    hist,       \* history: per doc id, [deleted, delDone, reg]
    wire,       \* one handle_socket: its channel, forwarding task and transport
    prefix,     \* S3Store.prefix
    bucket,     \* the S3 bucket: full key -> bytes
    ls,         \* the list_objects or copy_document call in progress
    call,       \* the store call that returned last
    live,       \* whether Server.docs holds the document whose objects are in the bucket
    del,        \* per request: a delete_document call over the bucket
    web,        \* the asset endpoints: ids issued, store calls made, last response
    auth        \* auth_doc: the server's configuration, the request, the response

\* What the document lifecycle leaves alone.
extVars == <<wire, prefix, bucket, ls, call, live, del, web, auth>>

\* The document lifecycle.
docVars == <<docs, store, ninst, inst, pw, gc, proc, cancelled, nmut, acked, hist>>

vars == <<docs, store, ninst, inst, pw, gc, proc, cancelled, nmut, acked, hist, extVars>>

Absent == [ex |-> FALSE, kv |-> {}]
NoInst == [doc |-> "none", data |-> {}, dirty |-> FALSE, shut |-> FALSE,
           chan |-> 0, refs |-> 0]
NoPw   == [pc |-> "none", done |-> FALSE, since |-> 0, timer |-> 0, snap |-> {},
           n |-> 0, fin |-> FALSE, err |-> FALSE]
NoGc   == [pc |-> "none", idle |-> 0, timer |-> 0, obs |-> <<0, 0>>]
NoWire == [st |-> "none", made |-> 0, q |-> <<>>, hold |-> 0, sent |-> <<>>,
           fwd |-> FALSE]
Idle   == [pc |-> "idle", kind |-> "-", doc |-> "none", inst |-> 0, snap |-> {},
           out |-> 0, fwd |-> FALSE, last |-> "-", warned |-> FALSE]

InitDocs ==
    /\ docs = [d \in DocIds |-> 0]
    /\ store = [d \in DocIds |-> Absent]
    /\ ninst = 0
    /\ inst = [i \in Insts |-> NoInst]
    /\ pw = [i \in Insts |-> NoPw]
    /\ gc = [i \in Insts |-> NoGc]
    /\ proc = [p \in Procs |-> Idle]
    /\ cancelled = FALSE
    /\ nmut = 0
    /\ acked = [d \in DocIds |-> {}]
    /\ hist = [d \in DocIds |-> [deleted |-> FALSE, delDone |-> FALSE, reg |-> 0]]

Init ==
    /\ InitDocs
    /\ wire = NoWire
    /\ prefix = [some |-> FALSE, v |-> <<>>]
    /\ bucket = <<>>
    /\ ls = [pc |-> "idle"]
    /\ call = [op |-> "-"]
    /\ live = FALSE
    /\ del = <<>>
    /\ web = [st |-> "-"]
    /\ auth = [st |-> "-"]

Min(a, b) == IF a < b THEN a ELSE b
Max(a, b) == IF a > b THEN a ELSE b

\* Handlers are anonymous tasks: a new request takes the lowest free slot.
FreeSlot(p) == proc[p].pc = "idle" /\ \A q \in Procs : q < p => proc[q].pc # "idle"

\* ------------------------------------------------------------ the store
\* Store::set of {doc_id}/data.ysweet with a serialized snapshot.
StorePut(st, d, snap) == [st EXCEPT ![d] = [ex |-> TRUE, kv |-> snap]]

\* Store::remove of {doc_id}/data.ysweet.
StoreRemove(st, d) == [st EXCEPT ![d] = Absent]

\* StoreExt::copy_document: every object under {src}/ is copied to {dst}/.
StoreCopy(st, src, dst) == IF st[src].ex THEN [st EXCEPT ![dst] = st[src]] ELSE st

\* --------------------------------------------------------------- SyncKv
\* SyncKv::new: the map read from the snapshot, empty when there is none.
KvLoad(d) ==
    [doc |-> d, data |-> store[d].kv, dirty |-> FALSE, shut |-> FALSE,
     chan |-> 0, refs |-> 0]

\* The dirty channel of load_doc: channel(1024).
ChanCap == 1024

\* `send.try_send(())` on the channel of SyncKv r whose receiver is owned by
\* worker w: Err(Full) with ChanCap signals pending, Err(Closed) once the
\* worker has returned and dropped the receiver.
TrySendOk(r, w) == r.chan < ChanCap /\ w.pc # "exit"

\* The dirty callback of load_doc: `send.try_send(()).unwrap()`.
DirtyCallback(r, w) == IF TrySendOk(r, w) THEN [r EXCEPT !.chan = @ + 1] ELSE r

\* The unwrap in the callback panics.
CallbackPanics(r, w) == ~TrySendOk(r, w)

\* SyncKv::set: upsert, set dirty, invoke the callback unless shut down.
KvSet(r, m, w) ==
    LET r1 == [r EXCEPT !.data = @ \cup {m}, !.dirty = TRUE]
    IN  IF r.shut THEN r1 ELSE DirtyCallback(r1, w)

\* A mutation of SyncKv r unwinds out of the callback.
SetPanics(r, w) == ~r.shut /\ CallbackPanics(r, w)

\* SyncKv::persist, second half: the put has succeeded; dirty is cleared
\* unless the map changed since the snapshot was taken.
KvPersisted(r, snap) == [r EXCEPT !.dirty = (r.data # snap)]

\* SyncKv::shutdown.
KvShutdown(r) == [r EXCEPT !.shut = TRUE]

\* ------------------------------------------------------- worker spawning
\* load_doc: doc_worker_tracker.spawn(doc_persistence_worker(..)); the worker
\* sets last_save = now and enters its select with a fresh sleep.
SpawnPw == [NoPw EXCEPT !.pc = "select", !.timer = Freq]

\* load_doc: doc_worker_tracker.spawn(doc_gc_worker(..)) when doc_gc is set.
SpawnGc == IF DocGc THEN [NoGc EXCEPT !.pc = "sleep", !.timer = Freq] ELSE NoGc

\* ------------------------------------------------- applying an update
\* DocWithSyncKv::apply_update on instance i: the update is recorded in the
\* SyncKv.  acked remembers it when i is the registry entry and the
\* cancellation token has not fired.
ApplyUpdate(i, base) ==
    LET m == nmut + 1
        d == base[i].doc
    IN  /\ nmut < MaxMut
        /\ nmut' = m
        /\ inst' = [base EXCEPT ![i] = KvSet(@, m, pw[i])]
        /\ acked' = IF docs'[d] = i /\ ~cancelled
                    THEN [acked EXCEPT ![d] = @ \cup {m}] ELSE acked

\* ---------------------------------------------- get_or_create_doc callers
\* A request is a websocket upgrade or an HTTP update, made with
\* Authorization::Full ("ws", "update") or Authorization::ReadOnly; an
\* "update_bad" is a Full update whose body does not decode.
IsWs(kind) == kind \in {"ws", "ws_ro"}

\* Mutant: every authorization counts as Full.
IsFullAlways(kind) == TRUE

\* `matches!(authorization, Authorization::Full)`
IsFull(kind) == kind \in {"ws", "update", "update_bad"}

\* What the caller does with the entry it got: handle_socket_upgrade clones
\* the awareness Arc and the connection runs; update_doc_inner applies the
\* update and returns, with an error when apply_update gives Err.
Enter(p, kind, i, base) ==
    IF IsWs(kind)
    THEN /\ inst' = [base EXCEPT ![i].refs = @ + 1]
         /\ proc' = [proc EXCEPT ![p] = [Idle EXCEPT !.pc = "open", !.kind = kind,
                                          !.doc = base[i].doc, !.inst = i,
                                          !.fwd = TRUE]]
         /\ UNCHANGED <<nmut, acked>>
    ELSE IF kind = "update_bad"
    THEN /\ inst' = base
         /\ proc' = [proc EXCEPT ![p] = [Idle EXCEPT !.pc = "bad_update", !.kind = kind,
                                          !.doc = base[i].doc]]
         /\ UNCHANGED <<nmut, acked>>
    ELSE /\ ApplyUpdate(i, base)
         /\ proc' = [proc EXCEPT ![p] = Idle]

\* get_or_create_doc, the entry is in the map: contains_key, then docs.get.
GetExisting(p, kind, d) ==
    /\ FreeSlot(p)
    /\ ~cancelled
    /\ docs[d] # 0
    /\ UNCHANGED docs
    /\ Enter(p, kind, docs[d], inst)
    /\ UNCHANGED <<store, ninst, pw, gc, cancelled, hist, extVars>>

\* get_or_create_doc, the entry is not in the map: load_doc is entered and
\* DocWithSyncKv::new issues its store read.
LoadStart(p, kind, d, lim) ==
    /\ FreeSlot(p)
    /\ ~cancelled
    /\ docs[d] = 0
    /\ ninst < lim
    /\ ninst' = ninst + 1
    /\ proc' = [proc EXCEPT ![p] = [Idle EXCEPT !.pc = "load", !.kind = kind,
                                     !.doc = d, !.inst = ninst + 1]]
    /\ UNCHANGED <<docs, store, inst, pw, gc, cancelled, nmut, acked, hist, extVars>>

\* load_doc: DocWithSyncKv::new returns the loaded document and the initial
\* persist takes its snapshot and issues the put.
LoadRead(p) ==
    LET i == proc[p].inst
        d == proc[p].doc
    IN  /\ proc[p].pc = "load"
        /\ inst' = [inst EXCEPT ![i] = KvLoad(d)]
        /\ proc' = [proc EXCEPT ![p].pc = "persist", ![p].snap = store[d].kv]
        /\ UNCHANGED <<docs, store, ninst, pw, gc, cancelled, nmut, acked, hist, extVars>>

\* load_doc: the initial put returns, both workers are spawned and the
\* document is inserted (replacing any entry); get_or_create_doc then gets
\* it from the map and the caller goes on.
LoadInsert(p) ==
    LET i == proc[p].inst
        d == proc[p].doc
    IN  /\ proc[p].pc = "persist"
        /\ store' = StorePut(store, d, proc[p].snap)
        /\ pw' = [pw EXCEPT ![i] = SpawnPw]
        /\ gc' = [gc EXCEPT ![i] = SpawnGc]
        /\ docs' = [docs EXCEPT ![d] = i]
        /\ Enter(p, proc[p].kind, i, [inst EXCEPT ![i] = KvPersisted(@, proc[p].snap)])
        /\ hist' = [hist EXCEPT ![d].delDone = FALSE]
        /\ UNCHANGED <<ninst, cancelled, extVars>>

\* Mutant: the error of the initial persist is dropped and load_doc goes on:
\* the workers are spawned and the document is inserted.
LoadPersistErrIgnored(p) ==
    LET i == proc[p].inst
        d == proc[p].doc
    IN  /\ proc[p].pc = "persist"
        /\ pw' = [pw EXCEPT ![i] = SpawnPw]
        /\ gc' = [gc EXCEPT ![i] = SpawnGc]
        /\ docs' = [docs EXCEPT ![d] = i]
        /\ Enter(p, proc[p].kind, i, inst)
        /\ UNCHANGED <<store, ninst, cancelled, hist, extVars>>

\* What `?` leaves of a load_doc that failed: the document under
\* construction is dropped and the caller answers 500.
LoadFailed(p) ==
    /\ inst' = [inst EXCEPT ![proc[p].inst] = NoInst]
    /\ proc' = [proc EXCEPT ![p] = [Idle EXCEPT !.pc = "error", !.kind = proc[p].kind,
                                     !.doc = proc[p].doc]]
    /\ UNCHANGED <<docs, store, ninst, pw, gc, cancelled, nmut, acked, hist, extVars>>

\* load_doc: DocWithSyncKv::new returns Err (the store read failed, or the
\* snapshot does not decode).
LoadNewErr(p) ==
    /\ proc[p].pc = "load"
    /\ LoadFailed(p)

\* load_doc: the initial persist returns Err; the put has not landed.
LoadPersistErr(p) ==
    /\ proc[p].pc = "persist"
    /\ LoadFailed(p)

\* ------------------------------------------------------------ connections
\* handle_socket: a binary frame carrying an update arrives and
\* DocConnection::send applies it to the connection's document (a ReadOnly
\* connection drops the frame).  When the dirty callback panics the handler
\* task unwinds and its awareness reference is dropped.
ConnUpdate(p) ==
    LET i == proc[p].inst
        panics == SetPanics(inst[i], pw[i])
    IN  /\ proc[p].pc = "open"
        /\ IsFull(proc[p].kind)
        /\ UNCHANGED docs
        /\ ApplyUpdate(i, IF panics THEN [inst EXCEPT ![i].refs = @ - 1] ELSE inst)
        /\ proc' = IF panics THEN [proc EXCEPT ![p] = Idle] ELSE proc
        /\ UNCHANGED <<store, ninst, pw, gc, cancelled, hist, extVars>>

\* handle_socket returns and drops its awareness reference.
Drop(p) ==
    /\ inst' = [inst EXCEPT ![proc[p].inst].refs = @ - 1]
    /\ proc' = [proc EXCEPT ![p] = Idle]
    /\ UNCHANGED <<docs, store, ninst, pw, gc, cancelled, nmut, acked, hist, extVars>>

\* handle_socket: Message::Close from the client.
ConnClose(p) ==
    /\ proc[p].pc = "open"
    /\ Drop(p)

\* handle_socket: stream.next() gives Err: a warning and `continue`.  The
\* stream has ended, so from now on only the cancellation branch can match.
ConnError(p) ==
    /\ proc[p].pc = "open"
    /\ proc' = [proc EXCEPT ![p].pc = "broken"]
    /\ UNCHANGED <<docs, store, ninst, inst, pw, gc, cancelled, nmut, acked, hist, extVars>>

\* handle_socket: stream.next() gives None (the peer is gone, with no close
\* frame or after frames the handler skipped): the pattern `Some(msg)` does
\* not match and the branch is disabled, in this select and in every later
\* one.
ConnStreamEnd(p) ==
    /\ proc[p].pc = "open"
    /\ proc' = [proc EXCEPT ![p].pc = "ended"]
    /\ UNCHANGED <<docs, store, ninst, inst, pw, gc, cancelled, nmut, acked, hist, extVars>>

\* handle_socket: the cancellation branch of the select.
ConnCancelled(p) ==
    /\ proc[p].pc \in {"open", "broken", "ended"}
    /\ cancelled
    /\ Drop(p)

\* ---------------------------------------------------- the outbound queue
\* handle_socket: channel(1024) between the DocConnection callback and the
\* task that forwards to the sink.
OutCap == 1024

\* Mutant: the queue takes any number of frames.
QueueHasRoomAlways(n) == TRUE

\* try_send is Ok below the capacity, Err(Full) at it.
QueueHasRoom(n) == n < OutCap

\* The DocConnection callback: `send.try_send(bytes.to_vec())`, a warning on
\* Err (queue full, or the forwarding task gone).
OutboundFrame(p) ==
    /\ proc[p].pc \in {"open", "broken"}
    /\ proc' = [proc EXCEPT ![p] =
                  IF @.fwd /\ QueueHasRoom(@.out)
                  THEN [@ EXCEPT !.out = @ + 1, !.last = "queued"]
                  ELSE [@ EXCEPT !.last = "dropped", !.warned = TRUE]]
    /\ UNCHANGED <<docs, store, ninst, inst, pw, gc, cancelled, nmut, acked, hist, extVars>>

\* The forwarding task: recv.recv() gives a frame and sink.send is Ok.
SinkSend(p) ==
    /\ proc[p].pc \in {"open", "broken"}
    /\ proc[p].fwd
    /\ proc[p].out > 0
    /\ proc' = [proc EXCEPT ![p].out = @ - 1]
    /\ UNCHANGED <<docs, store, ninst, inst, pw, gc, cancelled, nmut, acked, hist, extVars>>

\* The forwarding task: sink.send is Err, the task breaks and the receiver
\* with the frames still queued is dropped.
SinkError(p) ==
    /\ proc[p].pc \in {"open", "broken"}
    /\ proc[p].fwd
    /\ proc[p].out > 0
    /\ proc' = [proc EXCEPT ![p].out = 0, ![p].fwd = FALSE]
    /\ UNCHANGED <<docs, store, ninst, inst, pw, gc, cancelled, nmut, acked, hist, extVars>>

\* --------------------------------------------------- doc_persistence_worker
\* Mutant: the cancellation branch does not end the loop.
DoneOnCancelNever == FALSE

\* `_ = cancellation_token.cancelled() => true`
DoneOnCancel == TRUE

\* Mutant: the timeout branch never looks at the shutdown flag.
DoneOnTimeoutNever(i) == FALSE

\* `_ = tokio::time::sleep(checkpoint_freq) => sync_kv.is_shutdown()`
DoneOnTimeout(i) == inst[i].shut

\* Mutant: a dirty signal is persisted at once.
NeverThrottle(done, since) == FALSE

\* `if !is_done && now - last_save < checkpoint_freq`
NeedsThrottle(done, since) == ~done /\ since < Freq

\* `sync_kv.persist()` is entered: the snapshot of the map is taken and the
\* put is issued.  fin records whether the token had fired by then.
PwBeginPersist(w, i, done) ==
    [w EXCEPT !.pc = "persist", !.done = done, !.snap = inst[i].data,
              !.timer = 0, !.fin = cancelled, !.err = FALSE]

\* Mutant: a worker that is done leaves without its last persist.
PwExitWithoutPersist(w, i, done) ==
    IF done THEN [w EXCEPT !.pc = "exit", !.done = TRUE, !.timer = 0]
    ELSE IF NeedsThrottle(done, w.since)
    THEN [w EXCEPT !.pc = "throttle", !.done = done, !.timer = Freq - w.since]
    ELSE PwBeginPersist(w, i, done)

\* After the first select: throttle, or persist at once.
PwAfterSelect(w, i, done) ==
    IF NeedsThrottle(done, w.since)
    THEN [w EXCEPT !.pc = "throttle", !.done = done, !.timer = Freq - w.since]
    ELSE PwBeginPersist(w, i, done)

PwOnly(i) == UNCHANGED <<docs, store, ninst, inst, gc, proc, cancelled, nmut, acked, hist, extVars>>

\* select: `v = recv.recv() => v.is_none()` with a dirty signal pending.  The
\* sender lives in the SyncKv the worker holds, so the channel never closes.
PwSignal(i) ==
    /\ pw[i].pc = "select"
    /\ inst[i].chan > 0
    /\ pw' = [pw EXCEPT ![i] = PwAfterSelect(@, i, FALSE)]
    /\ inst' = [inst EXCEPT ![i].chan = @ - 1]
    /\ UNCHANGED <<docs, store, ninst, gc, proc, cancelled, nmut, acked, hist, extVars>>

\* select: the cancellation branch.
PwCancelled(i) ==
    /\ pw[i].pc = "select"
    /\ cancelled
    /\ pw' = [pw EXCEPT ![i] = PwAfterSelect(@, i, DoneOnCancel)]
    /\ PwOnly(i)

\* select: the sleep(checkpoint_freq) branch.
PwTimeout(i) ==
    /\ pw[i].pc = "select"
    /\ pw[i].timer = 0
    /\ pw' = [pw EXCEPT ![i] = PwAfterSelect(@, i, DoneOnTimeout(i))]
    /\ PwOnly(i)

\* throttle loop: the remaining sleep has elapsed.
PwThrottleWake(i) ==
    /\ pw[i].pc = "throttle"
    /\ pw[i].timer = 0
    /\ pw' = [pw EXCEPT ![i] = PwBeginPersist(@, i, pw[i].done)]
    /\ PwOnly(i)

\* throttle loop: a dirty signal is received and discarded.
PwThrottleRecv(i) ==
    /\ pw[i].pc = "throttle"
    /\ inst[i].chan > 0
    /\ inst' = [inst EXCEPT ![i].chan = @ - 1]
    /\ UNCHANGED <<docs, store, ninst, pw, gc, proc, cancelled, nmut, acked, hist, extVars>>

\* throttle loop: cancellation breaks the loop; is_done stays false.
PwThrottleCancelled(i) ==
    /\ pw[i].pc = "throttle"
    /\ cancelled
    /\ pw' = [pw EXCEPT ![i] = PwBeginPersist(@, i, pw[i].done)]
    /\ PwOnly(i)

\* Mutant: the worker leaves its loop after any persist.
PwAfterPersistQuit(w) ==
    [w EXCEPT !.pc = "exit", !.snap = {}, !.since = 0, !.timer = 0, !.n = 1]

\* The worker after persist() returned: last_save = now, then exit when
\* is_done, else back to the select with a fresh sleep.
PwAfterPersist(w) ==
    IF w.done
    THEN [w EXCEPT !.pc = "exit", !.snap = {}, !.since = 0, !.timer = 0, !.n = 1]
    ELSE [w EXCEPT !.pc = "select", !.snap = {}, !.since = 0, !.timer = Freq, !.n = 1]

\* persist() returns Ok: the put has landed.
PwPersistEnd(i) ==
    /\ pw[i].pc = "persist"
    /\ store' = StorePut(store, inst[i].doc, pw[i].snap)
    /\ inst' = [inst EXCEPT ![i] = KvPersisted(@, pw[i].snap)]
    /\ pw' = [pw EXCEPT ![i] = PwAfterPersist(@)]
    /\ UNCHANGED <<docs, ninst, gc, proc, cancelled, nmut, acked, hist, extVars>>

\* persist() returns Err: the put failed, the store and the dirty flag are
\* as they were; the error is logged and the loop goes on.
PwPersistFail(i) ==
    /\ pw[i].pc = "persist"
    /\ pw' = [pw EXCEPT ![i] = [PwAfterPersist(@) EXCEPT !.err = TRUE]]
    /\ PwOnly(i)

\* ------------------------------------------------------------ doc_gc_worker
\* `if checkpoints_without_refs >= 2`
GcThreshold == 2

\* Mutant: one more idle tick is waited for.
GcShouldEvictLate(idle) == idle > GcThreshold

GcShouldEvict(idle) == idle >= GcThreshold

\* `awareness.strong_count() > 1`: the registry's reference plus one per
\* connection.
HasRefs(i) == 1 + inst[i].refs > 1

GcOnly(i) == UNCHANGED <<docs, store, ninst, inst, pw, proc, cancelled, nmut, acked, hist, extVars>>

\* The sleep branch, first half: docs.get and the reference count.  obs is
\* history: the entries the last two ticks of the current run of idle ticks
\* found under the id.
GcTick(g) ==
    LET d == inst[g].doc
        cur == docs[d]
        idle == IF HasRefs(cur) THEN 0 ELSE gc[g].idle + 1
        obs == IF HasRefs(cur) THEN <<0, 0>> ELSE <<gc[g].obs[2], cur>>
    IN  /\ gc[g].pc = "sleep"
        /\ gc[g].timer = 0
        /\ gc' = [gc EXCEPT ![g] =
                    IF cur = 0 THEN [@ EXCEPT !.pc = "exit", !.idle = 0, !.obs = <<0, 0>>]
                    ELSE IF GcShouldEvict(idle)
                         THEN [@ EXCEPT !.pc = "evict", !.idle = idle, !.obs = obs]
                         ELSE [@ EXCEPT !.idle = idle, !.timer = Freq, !.obs = obs]]
        /\ GcOnly(g)

\* The sleep branch, second half: sync_kv().shutdown() on the entry found
\* under the id, then docs.remove.
GcEvict(g) ==
    LET d == inst[g].doc
        cur == docs[d]
    IN  /\ gc[g].pc = "evict"
        /\ inst' = IF cur = 0 THEN inst ELSE [inst EXCEPT ![cur] = KvShutdown(@)]
        /\ docs' = [docs EXCEPT ![d] = 0]
        /\ gc' = [gc EXCEPT ![g].pc = "exit", ![g].idle = 0, ![g].obs = <<0, 0>>]
        /\ UNCHANGED <<store, ninst, pw, proc, cancelled, nmut, acked, hist, extVars>>

\* The cancellation branch.
GcCancelled(g) ==
    /\ gc[g].pc = "sleep"
    /\ cancelled
    /\ gc' = [gc EXCEPT ![g].pc = "exit", ![g].idle = 0, ![g].timer = 0,
                         ![g].obs = <<0, 0>>]
    /\ GcOnly(g)

\* ------------------------------------------------------------------ time
TickPw(w) ==
    IF w.pc \in {"select", "throttle", "persist"}
    THEN [w EXCEPT !.timer = Max(@ - 1, 0), !.since = Min(@ + 1, Freq)]
    ELSE w

TickGc(w) == IF w.pc = "sleep" THEN [w EXCEPT !.timer = Max(@ - 1, 0)] ELSE w

\* One unit of time passes.
Tick ==
    /\ pw' = [i \in Insts |-> TickPw(pw[i])]
    /\ gc' = [i \in Insts |-> TickGc(gc[i])]
    /\ UNCHANGED <<docs, store, ninst, inst, proc, cancelled, nmut, acked, hist, extVars>>

\* The cancellation token is triggered.  hist remembers which instance each
\* id had in the map at that moment.
Cancel ==
    /\ ~cancelled
    /\ cancelled' = TRUE
    /\ hist' = [d \in DocIds |-> [hist[d] EXCEPT !.reg = docs[d]]]
    /\ UNCHANGED <<docs, store, ninst, inst, pw, gc, proc, nmut, acked, extVars>>

\* ------------------------------------------------------------ doc_exists
\* Store::exists of {doc_id}/data.ysweet: Ok(found), or Err(ConnectionError)
\* when the request fails (ok = FALSE).
StoreExists(st, d, ok) ==
    IF ok THEN [err |-> FALSE, val |-> st[d].ex] ELSE [err |-> TRUE, val |-> FALSE]

\* Result<bool>::unwrap_or_default.
UnwrapOrDefault(r) == IF r.err THEN FALSE ELSE r.val

\* Server::doc_exists: in the map, or what the store's exists call gives.
DocExistsAnswer(d, ok) == docs[d] # 0 \/ UnwrapOrDefault(StoreExists(store, d, ok))

\* doc_exists when the store answers.
DocExists(d) == DocExistsAnswer(d, TRUE)

\* --------------------------------------------------------------- answers
ProcOnly == UNCHANGED <<docs, store, ninst, inst, pw, gc, cancelled, nmut, acked, hist, extVars>>

\* The handler returns the status res: "notfound", "forbidden", "ok", or
\* one of the two 500s, "error" (get_or_create_doc gave Err) and
\* "bad_update" (apply_update gave Err).
Answer(p, res, kind, d) ==
    proc' = [proc EXCEPT ![p] = [Idle EXCEPT !.pc = res, !.kind = kind, !.doc = d]]

\* The response has been written.
Respond(p) ==
    /\ proc[p].pc \in {"notfound", "forbidden", "ok", "error", "bad_update"}
    /\ proc' = [proc EXCEPT ![p] = Idle]
    /\ ProcOnly

\* auth_doc ("auth") and generate_upload_presigned_url / get_doc_assets
\* ("assets"): NotFound unless doc_exists.
AuthDoc(p, kind, d, ok) ==
    /\ FreeSlot(p)
    /\ ~cancelled
    /\ Answer(p, IF DocExistsAnswer(d, ok) THEN "ok" ELSE "notfound", kind, d)
    /\ ProcOnly

\* delete_document: doc_exists answered false.
DeleteNotFound(p, d, ok) ==
    /\ FreeSlot(p)
    /\ ~cancelled
    /\ ~DocExistsAnswer(d, ok)
    /\ Answer(p, "notfound", "delete", d)
    /\ ProcOnly

\* copy_document: doc_exists(source) answered false.
CopyNotFound(p, d, ok) ==
    /\ FreeSlot(p)
    /\ ~cancelled
    /\ ~DocExistsAnswer(d, ok)
    /\ Answer(p, "notfound", "copy", d)
    /\ ProcOnly

\* ------------------------------------------------- the authorization gates
\* update_doc_inner: Forbidden unless the authorization is Full, else
\* get_or_create_doc and apply_update.
UpdateDocInner(p, kind, d, lim) ==
    IF ~IsFull(kind)
    THEN /\ FreeSlot(p)
         /\ ~cancelled
         /\ Answer(p, "forbidden", kind, d)
         /\ ProcOnly
    ELSE GetExisting(p, kind, d) \/ LoadStart(p, kind, d, lim)

\* Mutant: the upgrade is not gated.
MayConnectAlways(kind, d) == TRUE

\* handle_socket_upgrade: the negation of
\* `!matches!(authorization, Authorization::Full) && !docs.contains_key(&doc_id)`
MayConnect(kind, d) == IsFull(kind) \/ docs[d] # 0

\* handle_socket_upgrade: NotFound when the gate refuses, else
\* get_or_create_doc and the upgrade.
HandleSocketUpgrade(p, kind, d, lim) ==
    IF ~MayConnect(kind, d)
    THEN /\ FreeSlot(p)
         /\ ~cancelled
         /\ Answer(p, "notfound", kind, d)
         /\ ProcOnly
    ELSE GetExisting(p, kind, d) \/ LoadStart(p, kind, d, lim)

\* --------------------------------------------------------- delete_document
\* doc_exists answered true; the handler goes on to the removal.
DeleteStart(p, d) ==
    /\ FreeSlot(p)
    /\ ~cancelled
    /\ DocExists(d)
    /\ proc' = [proc EXCEPT ![p] = [Idle EXCEPT !.pc = "del", !.kind = "delete", !.doc = d]]
    /\ UNCHANGED <<docs, store, ninst, inst, pw, gc, cancelled, nmut, acked, hist, extVars>>

\* docs.remove, and sync_kv().shutdown() on the removed entry;
\* store.remove of the snapshot is issued.
DeleteRemove(p) ==
    LET d == proc[p].doc
        cur == docs[d]
    IN  /\ proc[p].pc = "del"
        /\ docs' = [docs EXCEPT ![d] = 0]
        /\ inst' = IF cur = 0 THEN inst ELSE [inst EXCEPT ![cur] = KvShutdown(@)]
        /\ proc' = [proc EXCEPT ![p].pc = "del_store", ![p].inst = cur]
        /\ hist' = [hist EXCEPT ![d].deleted = TRUE]
        /\ UNCHANGED <<store, ninst, pw, gc, cancelled, nmut, acked, extVars>>

\* store.remove returns, and the handler answers success.
DeleteStore(p) ==
    LET d == proc[p].doc
    IN  /\ proc[p].pc = "del_store"
        /\ store' = StoreRemove(store, d)
        /\ proc' = [proc EXCEPT ![p] = Idle]
        /\ hist' = [hist EXCEPT ![d].delDone =
                      \A q \in Procs \ {p} : proc[q].doc # d \/ proc[q].pc = "open"]
        /\ UNCHANGED <<docs, ninst, inst, pw, gc, cancelled, nmut, acked, extVars>>

\* ----------------------------------------------------------- copy_document
\* doc_exists(source) answered true.  With the source in the map its
\* persist is forced: the snapshot is taken and the put issued.
CopyStart(p, d) ==
    /\ FreeSlot(p)
    /\ ~cancelled
    /\ DocExists(d)
    /\ proc' = [proc EXCEPT ![p] =
                  IF docs[d] # 0
                  THEN [Idle EXCEPT !.pc = "copy_persist", !.kind = "copy", !.doc = d,
                                    !.inst = docs[d], !.snap = inst[docs[d]].data]
                  ELSE [Idle EXCEPT !.pc = "copy_store", !.kind = "copy", !.doc = d]]
    /\ UNCHANGED <<docs, store, ninst, inst, pw, gc, cancelled, nmut, acked, hist, extVars>>

\* The forced persist returns Ok.
CopyPersistEnd(p) ==
    LET d == proc[p].doc
        i == proc[p].inst
    IN  /\ proc[p].pc = "copy_persist"
        /\ store' = StorePut(store, d, proc[p].snap)
        /\ inst' = [inst EXCEPT ![i] = KvPersisted(@, proc[p].snap)]
        /\ proc' = [proc EXCEPT ![p].pc = "copy_store"]
        /\ UNCHANGED <<docs, ninst, pw, gc, cancelled, nmut, acked, hist, extVars>>

\* The forced persist returns Err: a warning, and the copy goes on.
CopyPersistFail(p) ==
    /\ proc[p].pc = "copy_persist"
    /\ proc' = [proc EXCEPT ![p].pc = "copy_store"]
    /\ UNCHANGED <<docs, store, ninst, inst, pw, gc, cancelled, nmut, acked, hist, extVars>>

\* store.copy_document(source, destination) returns Ok.
CopyStore(p, dst) ==
    /\ proc[p].pc = "copy_store"
    /\ store' = StoreCopy(store, proc[p].doc, dst)
    /\ proc' = [proc EXCEPT ![p] = Idle]
    /\ UNCHANGED <<docs, ninst, inst, pw, gc, cancelled, nmut, acked, hist, extVars>>

\* ------------------------------------------------------- the specification
Kinds == {"ws", "update"}

\* get_or_create_doc and its callers, with at most lim instances ever loaded.
GetOrCreateStep(p, lim) ==
    \/ \E k \in Kinds, d \in DocIds : GetExisting(p, k, d)
    \/ \E k \in Kinds, d \in DocIds : LoadStart(p, k, d, lim)
    \/ LoadRead(p)
    \/ LoadInsert(p)

ConnStep(p) ==
    \/ ConnUpdate(p)
    \/ ConnClose(p)
    \/ ConnCancelled(p)

DeleteStep(p) ==
    \/ \E d \in DocIds : DeleteStart(p, d)
    \/ DeleteRemove(p)
    \/ DeleteStore(p)

CopyStep(p) ==
    \/ \E d \in DocIds : CopyStart(p, d)
    \/ CopyPersistEnd(p)
    \/ \E d \in DocIds : CopyStore(p, d)

PwStep(i) ==
    \/ PwSignal(i)
    \/ PwCancelled(i)
    \/ PwTimeout(i)
    \/ PwThrottleWake(i)
    \/ PwThrottleRecv(i)
    \/ PwThrottleCancelled(i)
    \/ PwPersistEnd(i)

GcStep(g) ==
    \/ GcTick(g)
    \/ GcEvict(g)
    \/ GcCancelled(g)

\* Every operation, two handlers at a time, one document instance per run.
Next ==
    \/ \E p \in Procs : GetOrCreateStep(p, 1)
    \/ \E p \in Procs : ConnStep(p)
    \/ \E p \in Procs : DeleteStep(p)
    \/ \E p \in Procs : CopyStep(p)
    \/ \E i \in Insts : PwStep(i)
    \/ \E g \in Insts : GcStep(g)
    \/ Tick
    \/ Cancel

Spec == Init /\ [][Next]_vars

\* Eviction and reload: one handler at a time, up to MaxInst instances of
\* the document one after the other.
NextReload ==
    \/ GetOrCreateStep(1, MaxInst)
    \/ ConnStep(1)
    \/ CopyStep(1)
    \/ \E i \in Insts : PwStep(i)
    \/ \E g \in Insts : GcStep(g)
    \/ Tick
    \/ Cancel

SpecReload == Init /\ [][NextReload]_vars

\* The authorization gates and doc_exists, with a store whose exists call
\* can fail: one handler at a time, one instance.
NextGate ==
    \/ \E k \in {"update", "update_ro"}, d \in DocIds : UpdateDocInner(1, k, d, 1)
    \/ \E k \in {"ws", "ws_ro"}, d \in DocIds : HandleSocketUpgrade(1, k, d, 1)
    \/ LoadRead(1)
    \/ LoadInsert(1)
    \/ ConnStep(1)
    \/ \E k \in {"auth", "assets"}, d \in DocIds, ok \in BOOLEAN : AuthDoc(1, k, d, ok)
    \/ \E d \in DocIds, ok \in BOOLEAN : DeleteNotFound(1, d, ok)
    \/ \E d \in DocIds, ok \in BOOLEAN : CopyNotFound(1, d, ok)
    \/ Respond(1)
    \/ DeleteStep(1)
    \/ \E i \in Insts : PwStep(i)
    \/ \E g \in Insts : GcStep(g)
    \/ Tick
    \/ Cancel

SpecGate == Init /\ [][NextGate]_vars

\* Failing puts and a failing inbound stream: one handler at a time, one
\* instance.
PwStepFault(i) == PwStep(i) \/ PwPersistFail(i)

NextFault ==
    \/ GetOrCreateStep(1, 1)
    \/ ConnStep(1)
    \/ ConnError(1)
    \/ CopyStep(1)
    \/ CopyPersistFail(1)
    \/ \E i \in Insts : PwStepFault(i)
    \/ \E g \in Insts : GcStep(g)
    \/ Tick
    \/ Cancel

SpecFault == Init /\ [][NextFault]_vars

\* The scheduler runs every worker that can take a step, puts return (Ok or
\* Err) and time passes.
FairFault ==
    /\ SpecFault
    /\ WF_vars(Tick)
    /\ \A i \in Insts : WF_vars(PwStepFault(i))

\* One connection and its outbound queue.
NextOutbound ==
    \/ \E d \in DocIds : HandleSocketUpgrade(1, "ws", d, 1)
    \/ LoadRead(1)
    \/ LoadInsert(1)
    \/ OutboundFrame(1)
    \/ SinkSend(1)
    \/ SinkError(1)
    \/ ConnClose(1)

SpecOutbound == Init /\ [][NextOutbound]_vars

\* Concurrent get_or_create_doc calls: two handlers, up to MaxInst instances,
\* no time passing (no sleep fires).
NextRace ==
    \/ \E p \in Procs : GetOrCreateStep(p, MaxInst)
    \/ \E p \in Procs : ConnStep(p)
    \/ \E i \in Insts : PwSignal(i) \/ PwCancelled(i) \/ PwThrottleRecv(i)
                          \/ PwThrottleCancelled(i) \/ PwPersistEnd(i)
    \/ \E g \in Insts : GcCancelled(g)
    \/ Cancel

SpecRace == Init /\ [][NextRace]_vars

\* The scheduler runs every spawned worker that can take a step, store
\* requests return, and time passes.
Fairness ==
    /\ WF_vars(Tick)
    /\ \A i \in Insts : WF_vars(PwStep(i))
    /\ \A g \in Insts : WF_vars(GcStep(g))

\* The persistence worker's life: everything but copy_document, whose forced
\* persist touches neither the worker's state nor the channel.
NextWorker ==
    \/ \E p \in Procs : GetOrCreateStep(p, 1)
    \/ \E p \in Procs : ConnStep(p)
    \/ \E p \in Procs : DeleteStep(p)
    \/ \E i \in Insts : PwStep(i)
    \/ \E g \in Insts : GcStep(g)
    \/ Tick
    \/ Cancel

SpecWorker == Init /\ [][NextWorker]_vars

FairSpec == SpecWorker /\ Fairness

\* Nothing makes time pass here: what holds does not wait for any sleep.
\* tokio::select! picks among its ready branches at random, and a worker that
\* enters its select after the token fired finds that branch ready at once,
\* so a cancellation branch that is ready again and again is taken.
CancelSpec ==
    /\ SpecWorker
    /\ \A i \in Insts : WF_vars(PwStep(i)) /\ SF_vars(PwCancelled(i))

\* Delete and reload: one handler at a time, connections that come and go
\* without sending an update, up to MaxInst instances of the document one
\* after the other, each with its own worker pair.
NextChurn ==
    \/ \E d \in DocIds : HandleSocketUpgrade(1, "ws", d, MaxInst)
    \/ LoadRead(1)
    \/ LoadInsert(1)
    \/ ConnClose(1)
    \/ DeleteStep(1)
    \/ \E i \in Insts : PwTimeout(i) \/ PwPersistEnd(i)
    \/ \E g \in Insts : GcTick(g) \/ GcEvict(g)
    \/ Tick

SpecChurn == Init /\ [][NextChurn]_vars

\* -------------------------------------------- copy_document onto a live id
\* The source of the copy: a document that a former run left in the store
\* and that is never loaded here.  Its snapshot holds the update SrcUpdate.
SrcId == "d0"
SrcUpdate == 0
CopyIds == DocIds \cup {SrcId}

InitCopyOver ==
    /\ docs = [d \in CopyIds |-> 0]
    /\ store = [d \in CopyIds |->
                  IF d = SrcId THEN [ex |-> TRUE, kv |-> {SrcUpdate}] ELSE Absent]
    /\ ninst = 0
    /\ inst = [i \in Insts |-> NoInst]
    /\ pw = [i \in Insts |-> NoPw]
    /\ gc = [i \in Insts |-> NoGc]
    /\ proc = [p \in Procs |-> Idle]
    /\ cancelled = FALSE
    /\ nmut = 0
    /\ acked = [d \in CopyIds |-> {}]
    /\ hist = [d \in CopyIds |-> [deleted |-> FALSE, delDone |-> FALSE, reg |-> 0]]
    /\ wire = NoWire
    /\ prefix = [some |-> FALSE, v |-> <<>>]
    /\ bucket = <<>>
    /\ ls = [pc |-> "idle"]
    /\ call = [op |-> "-"]
    /\ live = FALSE
    /\ del = <<>>
    /\ web = [st |-> "-"]
    /\ auth = [st |-> "-"]

\* One handler at a time: the destination is loaded, connected to, updated
\* and evicted, and copy_document(SrcId, destination) is served.
NextCopyOver ==
    \/ GetOrCreateStep(1, MaxInst)
    \/ ConnUpdate(1)
    \/ ConnClose(1)
    \/ CopyStart(1, SrcId)
    \/ \E dst \in DocIds : CopyStore(1, dst)
    \/ \E i \in Insts : PwSignal(i) \/ PwTimeout(i) \/ PwThrottleWake(i)
                          \/ PwThrottleRecv(i) \/ PwPersistEnd(i)
    \/ \E g \in Insts : GcTick(g) \/ GcEvict(g)
    \/ Tick

SpecCopyOver == InitCopyOver /\ [][NextCopyOver]_vars

\* One connection whose inbound stream can end without a close frame, the
\* workers of its document, and the cancellation token.
NextStream ==
    \/ \E d \in DocIds : HandleSocketUpgrade(1, "ws", d, 1)
    \/ LoadRead(1)
    \/ LoadInsert(1)
    \/ ConnStep(1)
    \/ ConnStreamEnd(1)
    \/ \E i \in Insts : PwStep(i)
    \/ \E g \in Insts : GcStep(g)
    \/ Tick
    \/ Cancel

SpecStream == Init /\ [][NextStream]_vars

\* Every task that can take a step is scheduled, handle_socket included;
\* nothing makes the token fire.
FairStream ==
    /\ SpecStream
    /\ Fairness
    /\ WF_vars(ConnCancelled(1))

\* Requests that fail: load_doc with a store whose reads and puts can fail,
\* and updates whose body does not decode.  One handler at a time, up to
\* MaxInst load_doc calls, no shutdown.
NextLoadFault ==
    \/ \E k \in {"ws", "update", "update_bad"}, d \in DocIds : GetExisting(1, k, d)
    \/ \E k \in {"ws", "update", "update_bad"}, d \in DocIds : LoadStart(1, k, d, MaxInst)
    \/ LoadRead(1)
    \/ LoadNewErr(1)
    \/ LoadInsert(1)
    \/ LoadPersistErr(1)
    \/ Respond(1)
    \/ ConnUpdate(1)
    \/ ConnClose(1)
    \/ \E i \in Insts : PwSignal(i) \/ PwTimeout(i) \/ PwThrottleWake(i)
                          \/ PwThrottleRecv(i) \/ PwPersistEnd(i)
    \/ \E g \in Insts : GcTick(g) \/ GcEvict(g)
    \/ Tick

SpecLoadFault == Init /\ [][NextLoadFault]_vars

\* ------------------------------------------ one connection, frame by frame
\* handle_socket with every frame told apart: frame k is the k-th call of the
\* DocConnection callback.  `wire.q` is the channel, `wire.hold` the frame the
\* forwarding task has received and is sending, `wire.sent` what the
\* transport has taken.
MaxFrames == 6

\* Mutant: the receiver hands out the newest frame of the channel.
ChanRecvNewest(q) == [msg |-> q[Len(q)], rest |-> SubSeq(q, 1, Len(q) - 1)]

\* tokio mpsc `recv()`: the oldest frame of the channel.
ChanRecv(q) == [msg |-> Head(q), rest |-> Tail(q)]

WireOnly == UNCHANGED <<docVars, prefix, bucket, ls, call, live, del, web, auth>>

\* `channel(1024)`, the forwarding task spawned, DocConnection::new.
SocketStart ==
    /\ wire.st = "none"
    /\ wire' = [wire EXCEPT !.st = "open", !.fwd = TRUE]
    /\ WireOnly

\* The callback: `send.try_send(bytes.to_vec())`; on Err (channel full or
\* receiver gone) the frame is logged and lost.
CallbackSend ==
    /\ wire.st = "open"
    /\ wire.made < MaxFrames
    /\ wire' = [wire EXCEPT !.made = @ + 1,
                            !.q = IF wire.fwd /\ QueueHasRoom(Len(@))
                                  THEN Append(@, wire.made + 1) ELSE @]
    /\ WireOnly

\* The forwarding task: `recv.recv().await` is Some(msg).
ForwardRecv ==
    /\ wire.fwd
    /\ wire.hold = 0
    /\ wire.q # <<>>
    /\ wire' = [wire EXCEPT !.hold = ChanRecv(wire.q).msg, !.q = ChanRecv(wire.q).rest]
    /\ WireOnly

\* The forwarding task: `sink.send(Message::Binary(msg)).await` is Ok.
ForwardSendOk ==
    /\ wire.fwd
    /\ wire.hold # 0
    /\ wire' = [wire EXCEPT !.sent = Append(@, wire.hold), !.hold = 0]
    /\ WireOnly

\* The forwarding task: sink.send is Err, `break`: the receiver and what it
\* still holds are dropped.
ForwardSendErr ==
    /\ wire.fwd
    /\ wire.hold # 0
    /\ wire' = [wire EXCEPT !.hold = 0, !.q = <<>>, !.fwd = FALSE]
    /\ WireOnly

\* handle_socket leaves its loop: the connection and the sender are dropped.
SocketLeave ==
    /\ wire.st = "open"
    /\ wire' = [wire EXCEPT !.st = "left"]
    /\ WireOnly

\* The forwarding task: the sender is gone and the channel is empty,
\* recv() is None and the task ends.
ForwardEnd ==
    /\ wire.fwd
    /\ wire.st = "left"
    /\ wire.hold = 0
    /\ wire.q = <<>>
    /\ wire' = [wire EXCEPT !.fwd = FALSE]
    /\ WireOnly

NextWire ==
    \/ SocketStart
    \/ CallbackSend
    \/ ForwardRecv
    \/ ForwardSendOk
    \/ ForwardSendErr
    \/ SocketLeave
    \/ ForwardEnd

SpecWire == Init /\ [][NextWire]_vars

\* ----------------------------------------------------------------- S3Store
\* Keys are sequences of characters, so that trimming, joining and prefix
\* stripping are computed as the code computes them.
Slash == <<"/">>

Chars == <<".", "/", "1", "2", "3", "4", "a", "b", "c", "d", "e", "g", "h", "i", "k",
           "l", "m", "n", "p", "s", "t", "w", "x", "y">>

None    == [some |-> FALSE, v |-> <<>>]
Some(v) == [some |-> TRUE, v |-> v]

\* S3Config.bucket_prefix: absent, without and with a trailing slash.
Prefixes == {None, Some(<<"p">>), Some(<<"p", "/">>)}

\* Keys of the objects of documents a and b: two of a, one of them nested,
\* and one of b.
DocKeys == {<<"a", "/", "x">>, <<"a", "/", "s", "/", "y">>, <<"b", "/", "x">>}

\* Keys of every shape: without and with a leading slash, nested, and at the
\* top level.
Keys == {<<"a", "/", "x">>, <<"a", "/", "s", "/", "y">>, <<"/", "a", "/", "x">>, <<"k">>}

\* Prefixes handed to list_objects: the parents of the keys above, with and
\* without the trailing slash.
ListPrefixes == {<<"a", "/">>, <<"a">>, <<"a", "/", "s", "/">>, <<"/", "a", "/">>, <<>>}

Bytes == {1, 2}

\* Largest page a ListObjectsV2 answer carries, and how many truncated
\* answers of one listing may come without a continuation token.
MaxPage == 2
MaxLost == 1

RECURSIVE TrimEnd(_)
\* str::trim_end_matches('/')
TrimEnd(s) ==
    IF s # <<>> /\ s[Len(s)] = "/" THEN TrimEnd(SubSeq(s, 1, Len(s) - 1)) ELSE s

RECURSIVE TrimStart(_)
\* str::trim_start_matches('/')
TrimStart(s) ==
    IF s # <<>> /\ s[1] = "/" THEN TrimStart(Tail(s)) ELSE s

\* str::trim_matches('/')
TrimMatches(s) == TrimStart(TrimEnd(s))

StartsWith(s, p) == Len(s) >= Len(p) /\ SubSeq(s, 1, Len(p)) = p

\* str::strip_prefix
StripPrefix(s, p) == IF StartsWith(s, p) THEN Some(SubSeq(s, Len(p) + 1, Len(s))) ELSE None

\* Mutant: the prefix and the key are joined as they are.
PrefixedKeyPlain(pref, key) ==
    IF pref.some THEN pref.v \o Slash \o key ELSE key

\* S3Store::prefixed_key
PrefixedKey(pref, key) ==
    IF pref.some
    THEN IF key = <<>> THEN pref.v ELSE TrimEnd(pref.v) \o Slash \o TrimStart(key)
    ELSE key

\* list_objects: `prefixed_key(prefix).trim_end_matches('/') + "/"`
FullPrefix(pref, p) == TrimEnd(PrefixedKey(pref, p)) \o Slash

\* The S3 service lists keys in UTF-8 binary order.
CharRank(c) == CHOOSE i \in 1..Len(Chars) : Chars[i] = c

RECURSIVE KeyLess(_, _)
KeyLess(s, t) ==
    IF s = <<>> THEN t # <<>>
    ELSE IF t = <<>> THEN FALSE
    ELSE IF s[1] = t[1] THEN KeyLess(Tail(s), Tail(t))
    ELSE CharRank(s[1]) < CharRank(t[1])

RECURSIVE SortKeys(_)
SortKeys(S) ==
    IF S = {} THEN <<>>
    ELSE LET m == CHOOSE k \in S : \A o \in S \ {k} : KeyLess(k, o)
         IN  <<m>> \o SortKeys(S \ {m})

\* S3 PutObject, GetObject by CopyObject, DeleteObject.  DeleteObject of a
\* key that is not there succeeds; `up` is whether the service answers.
S3Put(b, k, v) == [f \in DOMAIN b \cup {k} |-> IF f = k THEN v ELSE b[f]]

S3Copy(b, from, to) == IF from \in DOMAIN b THEN S3Put(b, to, b[from]) ELSE b

\* Mutant: DeleteObject of a key that is not there is an error.
S3DeleteStrict(b, k, up) ==
    IF up /\ k \in DOMAIN b
    THEN [ok |-> TRUE, b |-> [f \in DOMAIN b \ {k} |-> b[f]]]
    ELSE [ok |-> FALSE, b |-> b]

S3Delete(b, k, up) ==
    IF up
    THEN [ok |-> TRUE, b |-> [f \in DOMAIN b \ {k} |-> b[f]]]
    ELSE [ok |-> FALSE, b |-> b]

\* S3 ListObjectsV2: at most n keys after the position the token names (from
\* the start without one); a truncated answer names the next position,
\* unless `lose`.
S3List(b, full, tok, n, lose) ==
    LET all   == SortKeys({f \in DOMAIN b : StartsWith(f, full)})
        start == IF tok.some THEN tok.v ELSE 0
        end   == Min(start + n, Len(all))
        trunc == end < Len(all)
    IN  [contents  |-> SubSeq(all, start + 1, end),
         truncated |-> trunc,
         next      |-> IF trunc /\ ~lose THEN Some(end) ELSE None]

\* Mutant: a listing answer is never taken as truncated.
NeverTruncated(out) == FALSE

\* `out.is_truncated().unwrap_or(false)`
IsTruncated(out) == out.truncated

RECURSIVE Relative(_, _)
\* list_objects: the loop over `out.contents()`.
Relative(contents, full) ==
    IF contents = <<>> THEN <<>>
    ELSE LET rel == StripPrefix(Head(contents), full)
         IN  (IF rel.some /\ rel.v # <<>> THEN <<rel.v>> ELSE <<>>)
                 \o Relative(Tail(contents), full)

NoCall == [op |-> "-", key |-> <<>>, dst |-> <<>>, full |-> <<>>, ok |-> TRUE,
           res |-> <<>>, pages |-> 0, lost |-> 0, over |-> FALSE, again |-> FALSE]
NoLs   == [pc |-> "idle", op |-> "-", key |-> <<>>, dst |-> <<>>, full |-> <<>>,
           cont |-> None, res |-> <<>>, pages |-> 0, lost |-> 0]

S3Only == UNCHANGED <<docVars, wire, prefix, live, del, web, auth>>

\* S3Store::set
S3Set(k, v) ==
    /\ ls.pc = "idle"
    /\ bucket' = S3Put(bucket, PrefixedKey(prefix, k), v)
    /\ call' = [NoCall EXCEPT !.op = "set", !.key = k, !.full = PrefixedKey(prefix, k)]
    /\ UNCHANGED ls
    /\ S3Only

\* S3Store::remove: every Err of delete_object becomes ConnectionError.
S3Remove(k, up) ==
    /\ ls.pc = "idle"
    /\ LET out == S3Delete(bucket, PrefixedKey(prefix, k), up)
       IN  /\ bucket' = out.b
           /\ call' = [NoCall EXCEPT !.op = "remove", !.key = k, !.ok = out.ok,
                                     !.full = PrefixedKey(prefix, k),
                                     !.again = call.op = "remove" /\ call.key = k /\ call.ok]
    /\ UNCHANGED ls
    /\ S3Only

\* S3Store::list_objects up to its loop.
ListObjects(p) ==
    /\ ls.pc = "idle"
    /\ ls' = [NoLs EXCEPT !.pc = "page", !.op = "list", !.key = p,
                          !.full = FullPrefix(prefix, p)]
    /\ UNCHANGED <<bucket, call>>
    /\ S3Only

\* S3Store::copy_document up to the loop of its list_objects.
CopyDocument(src, dst) ==
    /\ ls.pc = "idle"
    /\ ls' = [NoLs EXCEPT !.pc = "page", !.op = "copy", !.key = src, !.dst = dst,
                          !.full = FullPrefix(prefix, TrimMatches(src) \o Slash)]
    /\ UNCHANGED <<bucket, call>>
    /\ S3Only

\* One turn of the loop of list_objects: a request, its contents pushed,
\* then the continuation token kept or the loop left.
ListPage(n, lose) ==
    /\ ls.pc = "page"
    /\ lose => ls.lost < MaxLost
    /\ LET out == S3List(bucket, ls.full, ls.cont, n, lose)
           res == ls.res \o Relative(out.contents, ls.full)
           lost == ls.lost + (IF out.truncated /\ ~out.next.some THEN 1 ELSE 0)
       IN  IF IsTruncated(out)
           THEN /\ ls' = [ls EXCEPT !.cont = out.next, !.res = res,
                                    !.pages = @ + 1, !.lost = lost]
                /\ UNCHANGED call
           ELSE IF ls.op = "list"
           THEN /\ ls' = NoLs
                /\ call' = [NoCall EXCEPT !.op = "list", !.key = ls.key, !.full = ls.full,
                                          !.res = res, !.pages = ls.pages + 1,
                                          !.lost = ls.lost]
           ELSE /\ ls' = [ls EXCEPT !.pc = "copy", !.res = res, !.pages = @ + 1]
                /\ UNCHANGED call
    /\ UNCHANGED bucket
    /\ S3Only

\* copy_object_server_side
CopyObjectServerSide(b, from, to) ==
    S3Copy(b, PrefixedKey(prefix, from), PrefixedKey(prefix, to))

RECURSIVE CopyEntries(_, _, _, _)
\* copy_document: the loop over the listed entries.
CopyEntries(b, entries, src, dst) ==
    IF entries = <<>> THEN b
    ELSE CopyEntries(CopyObjectServerSide(b, TrimMatches(src) \o Slash \o Head(entries),
                                             TrimMatches(dst) \o Slash \o Head(entries)),
                     Tail(entries), src, dst)

\* copy_document after its listing.
CopyObjects ==
    /\ ls.pc = "copy"
    /\ bucket' = CopyEntries(bucket, ls.res, ls.key, ls.dst)
    /\ call' = [NoCall EXCEPT
                  !.op = "copy", !.key = ls.key, !.dst = ls.dst, !.full = ls.full,
                  !.res = ls.res, !.pages = ls.pages, !.lost = ls.lost,
                  !.over = \E f \in DOMAIN bucket : bucket'[f] # bucket[f]]
    /\ ls' = NoLs
    /\ S3Only

DocNames == {<<"a">>, <<"b">>}

\* The objects of two documents: written, removed, listed page by page and
\* copied from one document to the other.
NextS3 ==
    \/ \E k \in DocKeys, v \in Bytes : S3Set(k, v)
    \/ \E k \in DocKeys : S3Remove(k, TRUE)
    \/ \E d \in DocNames : ListObjects(d \o Slash)
    \/ \E src \in DocNames : \E dst \in DocNames \ {src} : CopyDocument(src, dst)
    \/ \E n \in 1..MaxPage, lose \in BOOLEAN : ListPage(n, lose)
    \/ CopyObjects

\* Keys of every shape under every prefix configuration: written, removed
\* and listed.
NextKeys ==
    \/ \E k \in Keys : S3Set(k, 1)
    \/ \E k \in Keys, up \in BOOLEAN : S3Remove(k, up)
    \/ \E p \in ListPrefixes : ListObjects(p)
    \/ \E n \in 1..MaxPage : ListPage(n, FALSE)

\* A store configured with any of the bucket prefixes, its bucket empty.
InitS3 ==
    /\ InitDocs
    /\ wire = NoWire
    /\ prefix \in Prefixes
    /\ bucket = <<>>
    /\ ls = NoLs
    /\ call = NoCall
    /\ live = FALSE
    /\ del = <<>>
    /\ web = [st |-> "-"]
    /\ auth = [st |-> "-"]

SpecS3 == InitS3 /\ [][NextS3]_vars

SpecKeys == InitS3 /\ [][NextKeys]_vars

\* ------------------------------------------- delete_document and its assets
\* The document whose objects the extension endpoints work on.
DocA == <<"a">>

DataName  == <<"d", "a", "t", "a", ".", "y", "s", "w", "e", "e", "t">>
AssetsDir == <<"a", "s", "s", "e", "t", "s">>

\* `format!("{}/data.ysweet", doc_id)`
DataKey(d) == d \o Slash \o DataName

\* `format!("{}/assets/", doc_id)`
AssetsPrefix(d) == d \o Slash \o AssetsDir \o Slash

\* `format!("{}/assets/{}", doc_id, filename)`
AssetKey(d, f) == d \o Slash \o AssetsDir \o Slash \o f

\* File names of uploaded assets.
AssetNames == {<<"c", "1", ".", "p", "n", "g">>, <<"c", "2", ".", "m", "p", "4">>,
               <<"c", "3", ".", "b", "i", "n">>}

\* delete_document requests that can run at once.
Dels == {1, 2}

NoDel == [pc |-> "idle", mem |-> FALSE, data |-> FALSE, names |-> <<>>, n |-> 0,
          gone |-> 0, status |-> 0]

\* list_objects with every truncated page carrying its continuation token:
\* all keys under the prefix, in the order of the service.
ListAll(b, p) ==
    Relative(SortKeys({f \in DOMAIN b : StartsWith(f, FullPrefix(prefix, p))}),
             FullPrefix(prefix, p))

\* Server::doc_exists over the bucket: in Server.docs, or
\* store.exists({doc_id}/data.ysweet).
DocExistsIn(b, d) == live \/ PrefixedKey(prefix, DataKey(d)) \in DOMAIN b

DelOnly == UNCHANGED <<docVars, wire, prefix, ls, call, web, auth>>

\* delete_document: check_auth and validate_doc_name pass, then doc_exists.
DelGate(h) ==
    /\ del[h].pc = "idle"
    /\ del' = [del EXCEPT ![h] =
                 IF DocExistsIn(bucket, DocA)
                 THEN [@ EXCEPT !.pc = "data"]
                 ELSE [@ EXCEPT !.pc = "done", !.status = 404]]
    /\ UNCHANGED <<bucket, live>>
    /\ DelOnly

\* delete_document: docs.remove, then store.remove of the snapshot.
DelData(h, up) ==
    /\ del[h].pc = "data"
    /\ LET out == S3Delete(bucket, PrefixedKey(prefix, DataKey(DocA)), up)
       IN  /\ bucket' = out.b
           /\ del' = [del EXCEPT ![h] =
                        IF out.ok
                        THEN [@ EXCEPT !.pc = "list", !.mem = live, !.data = TRUE]
                        ELSE [@ EXCEPT !.pc = "done", !.mem = live, !.status = 500]]
    /\ live' = FALSE
    /\ DelOnly

\* delete_document: list_objects({doc_id}/assets/).
DelList(h, up) ==
    /\ del[h].pc = "list"
    /\ del' = [del EXCEPT ![h] =
                 IF up
                 THEN [@ EXCEPT !.pc = "assets", !.names = ListAll(bucket, AssetsPrefix(DocA))]
                 ELSE [@ EXCEPT !.pc = "done", !.status = 500]]
    /\ UNCHANGED <<bucket, live>>
    /\ DelOnly

\* delete_document: store.remove of the next listed asset.
DelAsset(h, up) ==
    /\ del[h].pc = "assets"
    /\ del[h].names # <<>>
    /\ LET key == PrefixedKey(prefix, AssetKey(DocA, Head(del[h].names)))
           out == S3Delete(bucket, key, up)
       IN  /\ bucket' = out.b
           /\ del' = [del EXCEPT ![h] =
                        IF out.ok
                        THEN [@ EXCEPT !.names = Tail(@), !.n = @ + 1,
                                       !.gone = @ + (IF key \in DOMAIN bucket THEN 1 ELSE 0)]
                        ELSE [@ EXCEPT !.pc = "done", !.status = 500]]
    /\ UNCHANGED live
    /\ DelOnly

\* delete_document: the response, `success = existed_in_memory ||
\* data_deleted || deleted_assets > 0`.
DelRespond(h) ==
    /\ del[h].pc = "assets"
    /\ del[h].names = <<>>
    /\ del' = [del EXCEPT ![h].pc = "done", ![h].status = 200]
    /\ UNCHANGED <<bucket, live>>
    /\ DelOnly

DelSuccess(r) == r.mem \/ r.data \/ r.n > 0

NextDelete ==
    \/ \E h \in Dels : DelGate(h)
    \/ \E h \in Dels, up \in BOOLEAN : DelData(h, up)
    \/ \E h \in Dels, up \in BOOLEAN : DelList(h, up)
    \/ \E h \in Dels, up \in BOOLEAN : DelAsset(h, up)
    \/ \E h \in Dels : DelRespond(h)

\* A document in memory or not, with or without snapshot, with any of the
\* assets, under any of the bucket prefixes.
InitDelete ==
    /\ InitDocs
    /\ wire = NoWire
    /\ prefix \in Prefixes
    /\ \E snap \in BOOLEAN, A \in SUBSET AssetNames :
          bucket = [f \in {PrefixedKey(prefix, AssetKey(DocA, a)) : a \in A}
                        \cup (IF snap THEN {PrefixedKey(prefix, DataKey(DocA))} ELSE {})
                    |-> 1]
    /\ ls = NoLs
    /\ call = NoCall
    /\ live \in BOOLEAN
    /\ del = [h \in Dels |-> NoDel]
    /\ web = [st |-> "-"]
    /\ auth = [st |-> "-"]

SpecDelete == InitDelete /\ [][NextDelete]_vars

\* ------------------------------------------------------ the asset endpoints
\* Asset ids issued in one run.
MaxIds == 2

\* Content types a client names: two allowed, one parsable and not allowed,
\* one that does not parse.
ContentTypes == {"image/png", "video/mp4", "text/html", "png"}

\* `content_type.parse::<mime::Mime>()` and `mime.type_()`.
MimeType(ct) ==
    CASE ct = "image/png" -> Some("image")
      [] ct = "video/mp4" -> Some("video")
      [] ct = "text/html" -> Some("text")
      [] OTHER            -> None

\* server_ext.rs is_allowed_content_type
IsAllowedContentType(ct) ==
    MimeType(ct).some /\ MimeType(ct).v \in {"image", "video"}

\* get_extension_from_content_type: the first extension mime_guess knows
\* for the type, application/octet-stream when it does not parse, "bin"
\* when there is none.
GetExtensionFromContentType(ct) ==
    <<".">> \o (CASE ct = "image/png" -> <<"p", "n", "g">>
                  [] ct = "video/mp4" -> <<"m", "p", "4">>
                  [] ct = "text/html" -> <<"h", "t", "m">>
                  [] OTHER            -> <<"b", "i", "n">>)

\* cuid2(): the n-th id, without a dot in it.
Cuid(n) == <<"c", Chars[2 + n]>>

\* str::rfind('.'), positions counted from 0.
RFindDot(s) ==
    IF \E i \in 1..Len(s) : s[i] = "."
    THEN Some((CHOOSE i \in 1..Len(s) : s[i] = "." /\ \A j \in (i + 1)..Len(s) : s[j] # ".") - 1)
    ELSE None

\* Mutant: the file name is cut at its first dot.
ExtractAtFirstDot(f) ==
    LET first == {i \in 1..Len(f) : f[i] = "." /\ \A j \in 1..(i - 1) : f[j] # "."}
    IN  IF first # {} /\ first # {1} THEN SubSeq(f, 1, (CHOOSE i \in first : TRUE) - 1) ELSE f

\* extract_asset_id_from_filename (always Some)
ExtractAssetIdFromFilename(f) ==
    IF RFindDot(f).some /\ RFindDot(f).v > 0 THEN SubSeq(f, 1, RFindDot(f).v) ELSE f

\* The handlers behind POST and GET of /d/:doc_id/assets and /assets: those
\* of Server::routes and single_doc_routes (server.rs) and those of
\* ext_routes and ext_single_doc_routes (server_ext.rs).
Endpoints == {"multi", "single", "ext_multi", "ext_single"}

IsMulti(ep) == ep \in {"multi", "ext_multi"}
IsExt(ep)   == ep \in {"ext_multi", "ext_single"}

\* File names of objects that did not come through an upload URL: without a
\* dot, with a leading dot only, with two dots.
OddNames == {<<"c", "3">>, <<".", "p", "n", "g">>, <<"c", ".", "1", ".", "p", "n", "g">>}

NoResp == [op |-> "-", ep |-> "-", status |-> 0, ct |-> "-", key |-> <<>>,
           asset_id |-> <<>>, assets |-> <<>>, calls |-> <<>>]
NoWeb  == [nid |-> 0, minted |-> {}, issued |-> {}, resp |-> NoResp]

WebOnly == UNCHANGED <<docVars, wire, prefix, ls, call, live, del, auth>>

\* The store calls of doc_exists: none for a document in Server.docs.
ExistsCalls == IF live THEN <<>> ELSE <<[op |-> "exists", key |-> DataKey(DocA)]>>

\* generate_upload_presigned_url and generate_upload_presigned_url_single of
\* both files; the token or the Plane header is taken to pass.
PresignUpload(ep, ct) ==
    /\ web.nid < MaxIds
    /\ LET name == Cuid(web.nid + 1) \o GetExtensionFromContentType(ct)
           key  == AssetKey(DocA, name)
           pre  == IF IsMulti(ep) THEN ExistsCalls ELSE <<>>
           base == [NoResp EXCEPT !.op = "presign", !.ep = ep, !.ct = ct]
       IN  IF IsMulti(ep) /\ ~DocExistsIn(bucket, DocA)
           THEN web' = [web EXCEPT !.resp = [base EXCEPT !.status = 404, !.calls = pre]]
           ELSE IF IsExt(ep) /\ ~IsAllowedContentType(ct)
           THEN web' = [web EXCEPT !.resp = [base EXCEPT !.status = 400, !.calls = pre]]
           ELSE web' = [web EXCEPT
                          !.nid = @ + 1,
                          !.minted = @ \cup {PrefixedKey(prefix, key)},
                          !.issued = @ \cup {[file |-> name, id |-> Cuid(web.nid + 1)]},
                          !.resp = [base EXCEPT
                                      !.status = 200, !.key = PrefixedKey(prefix, key),
                                      !.asset_id = name,
                                      !.calls = pre \o <<[op |-> "upload_url", key |-> key]>>]]
    /\ UNCHANGED bucket
    /\ WebOnly

\* A client uploads through an upload URL it was given.
ClientPut(n, ct) ==
    /\ LET k == PrefixedKey(prefix, AssetKey(DocA, Cuid(n) \o GetExtensionFromContentType(ct)))
       IN  /\ k \in web.minted
           /\ k \notin DOMAIN bucket
           /\ bucket' = S3Put(bucket, k, 1)
    /\ UNCHANGED web
    /\ WebOnly

RECURSIVE AssetUrls(_, _)
\* The loop over the listed names: the asset id and the key the download
\* URL is signed for.  get_doc_assets_single of server_ext.rs signs the
\* listed name itself.
AssetUrls(ep, names) ==
    IF names = <<>> THEN <<>>
    ELSE <<[file     |-> Head(names),
            asset_id |-> ExtractAssetIdFromFilename(Head(names)),
            key      |-> IF ep = "ext_single" THEN Head(names)
                         ELSE AssetKey(DocA, Head(names))]>>
         \o AssetUrls(ep, Tail(names))

\* get_doc_assets and get_doc_assets_single of both files.
ListAssets(ep) ==
    /\ LET pre   == IF IsMulti(ep) THEN ExistsCalls ELSE <<>>
           base  == [NoResp EXCEPT !.op = "list", !.ep = ep]
           names == ListAll(bucket, AssetsPrefix(DocA))
           urls  == AssetUrls(ep, names)
       IN  IF IsMulti(ep) /\ ~DocExistsIn(bucket, DocA)
           THEN web' = [web EXCEPT !.resp = [base EXCEPT !.status = 404, !.calls = pre]]
           ELSE web' = [web EXCEPT !.resp =
                          [base EXCEPT
                             !.status = 200, !.assets = urls,
                             !.calls = pre \o <<[op |-> "list", key |-> AssetsPrefix(DocA)]>>
                                           \o [i \in 1..Len(urls) |->
                                                 [op |-> "download_url", key |-> urls[i].key]]]]
    /\ UNCHANGED bucket
    /\ WebOnly

NextAssets ==
    \/ \E ep \in Endpoints, ct \in ContentTypes : PresignUpload(ep, ct)
    \/ \E n \in 1..MaxIds, ct \in ContentTypes : ClientPut(n, ct)
    \/ \E ep \in Endpoints : ListAssets(ep)

\* A store is configured; the document is in Server.docs, or has a snapshot,
\* or neither; the bucket holds none or all of the objects that were not
\* uploaded through an upload URL.
InitAssets ==
    /\ InitDocs
    /\ wire = NoWire
    /\ prefix \in {None, Some(<<"p">>)}
    /\ \E snap \in BOOLEAN, A \in {{}, OddNames} :
          bucket = [f \in {PrefixedKey(prefix, AssetKey(DocA, a)) : a \in A}
                        \cup (IF snap THEN {PrefixedKey(prefix, DataKey(DocA))} ELSE {})
                    |-> 1]
    /\ ls = NoLs
    /\ call = NoCall
    /\ live \in BOOLEAN
    /\ del = <<>>
    /\ web = NoWeb
    /\ auth = [st |-> "-"]

SpecAssets == InitAssets /\ [][NextAssets]_vars

\* ----------------------------------------------------------------- auth_doc
\* URLs are kept as what the url crate parses them into.
Url(scheme, authority, path) == [scheme |-> scheme, authority |-> authority, path |-> path]

\* Server.url_prefix: none, http, https, https with a path, wss.
UrlPrefixes == {None,
                Some(Url("http", "foo.bar", <<>>)),
                Some(Url("https", "foo.bar", <<>>)),
                Some(Url("https", "foo.bar", <<"base">>)),
                Some(Url("wss", "foo.bar", <<>>))}

\* The Host header of a request.
Hosts == {"localhost", "y.example:8080"}

\* `if url.scheme() == "https" { "wss" } else { "ws" }`
WsScheme(scheme) == IF scheme = "https" THEN "wss" ELSE "ws"

\* Url::join of a path that begins with a slash: the path is replaced.
UrlJoinAbsolute(u, path) == [u EXCEPT !.path = path]

\* auth_doc: the `url` of the ClientToken.
ClientUrl(pre, host, d) ==
    IF pre.some
    THEN UrlJoinAbsolute([pre.v EXCEPT !.scheme = WsScheme(pre.v.scheme)], <<"d", d, "ws">>)
    ELSE Url("ws", host, <<"d", d, "ws">>)

\* auth_doc: `token`, gen_doc_token of the authenticator when there is one.
ClientTokenOf(authn, d) == IF authn THEN Some(<<"token", d>>) ELSE None

NoAuthResp == [status |-> 0, host |-> "-", doc_id |-> "-", url |-> Url("-", "-", <<>>),
               token |-> None, existed |-> FALSE]

AuthOnly == UNCHANGED <<docs, ninst, inst, pw, gc, proc, cancelled, nmut, acked, hist,
                        wire, prefix, bucket, ls, call, live, del, web>>

\* A snapshot a previous run of the server left in the store.
EarlierSnapshot(d) ==
    /\ ~store[d].ex
    /\ auth.resp = NoAuthResp
    /\ store' = StorePut(store, d, {})
    /\ UNCHANGED auth
    /\ AuthOnly

\* auth_doc: check_auth (`authed`: the request carries the server token),
\* doc_exists (`ok`: the store's exists call answers), then the ClientToken.
AuthDocToken(d, host, authed, ok) ==
    /\ LET base == [NoAuthResp EXCEPT !.host = host, !.existed = docs[d] # 0 \/ store[d].ex]
       IN  auth' = [auth EXCEPT !.resp =
                      IF auth.authn /\ ~authed
                      THEN [base EXCEPT !.status = 401]
                      ELSE IF ~DocExistsAnswer(d, ok)
                      THEN [base EXCEPT !.status = 404]
                      ELSE [base EXCEPT !.status = 200, !.doc_id = d,
                                        !.url = ClientUrl(auth.url_prefix, host, d),
                                        !.token = ClientTokenOf(auth.authn, d)]]
    /\ UNCHANGED store
    /\ AuthOnly

\* auth_doc for a document that is in the store, in memory, or nowhere.
NextAuth ==
    \/ \E d \in DocIds : EarlierSnapshot(d)
    \/ \E d \in DocIds : HandleSocketUpgrade(1, "ws", d, 1)
    \/ LoadRead(1)
    \/ LoadInsert(1)
    \/ ConnClose(1)
    \/ \E d \in DocIds, host \in Hosts, authed, ok \in BOOLEAN : AuthDocToken(d, host, authed, ok)

\* A server with or without authenticator, with any of the URL prefixes.
InitAuth ==
    /\ InitDocs
    /\ wire = NoWire
    /\ prefix = None
    /\ bucket = <<>>
    /\ ls = NoLs
    /\ call = NoCall
    /\ live = FALSE
    /\ del = <<>>
    /\ web = NoWeb
    /\ \E authn \in BOOLEAN, pre \in UrlPrefixes :
          auth = [authn |-> authn, url_prefix |-> pre, resp |-> NoAuthResp]

SpecAuth == InitAuth /\ [][NextAuth]_vars

\* ------------------------------------------------ auth_doc: the expiration
\* A u64 is kept as four 16-bit limbs, least significant first, so that the
\* arithmetic of the code is computed at its full width.
Limb == 65536

\* `valid_for_seconds * 1000`
MillisPerSecond == 1000

\* x * k in u64, k below 2^15: the wrapped product, and whether it overflowed.
MulU64(x, k) ==
    LET p1 == x[1] * k
        p2 == x[2] * k + (p1 \div Limb)
        p3 == x[3] * k + (p2 \div Limb)
        p4 == x[4] * k + (p3 \div Limb)
    IN  [v |-> <<p1 % Limb, p2 % Limb, p3 % Limb, p4 % Limb>>, over |-> p4 \div Limb > 0]

\* x + y in u64: the wrapped sum, and whether it overflowed.
AddU64(x, y) ==
    LET s1 == x[1] + y[1]
        s2 == x[2] + y[2] + (s1 \div Limb)
        s3 == x[3] + y[3] + (s2 \div Limb)
        s4 == x[4] + y[4] + (s3 \div Limb)
    IN  [v |-> <<s1 % Limb, s2 % Limb, s3 % Limb, s4 % Limb>>, over |-> s4 \div Limb > 0]

\* x < y in u64.
LessU64(x, y) ==
    \E i \in 1..4 : x[i] < y[i] /\ \A j \in (i + 1)..4 : x[j] = y[j]

\* current_time_epoch_millis(): the first millisecond of 2026-11-03, of
\* 2001-09-09 and of 2100-01-01.
Nows == {<<40960, 40628, 417, 0>>, <<26624, 54339, 232, 0>>, <<55296, 11459, 955, 0>>}

\* valid_for_seconds of a request: 0, 1, a minute, an hour, a day, 30 days,
\* 2^16, 2^32, 2^48, 2^63, the largest value whose product fits and the next
\* one, the same for the sum with each of the clocks, and u64::MAX.
Validities == {<<0, 0, 0, 0>>, <<1, 0, 0, 0>>, <<60, 0, 0, 0>>, <<3600, 0, 0, 0>>,
               <<20864, 1, 0, 0>>, <<36096, 39, 0, 0>>,
               <<0, 1, 0, 0>>, <<0, 0, 1, 0>>, <<0, 0, 0, 1>>, <<0, 0, 0, 32768>>,
               <<42991, 19398, 35127, 65>>, <<42992, 19398, 35127, 65>>,
               <<33775, 57565, 35126, 65>>, <<33776, 57565, 35126, 65>>,
               <<63215, 4139, 35127, 65>>, <<63216, 4139, 35127, 65>>,
               <<20719, 22336, 35126, 65>>, <<20720, 22336, 35126, 65>>,
               <<65535, 65535, 65535, 65535>>}

\* `current_time_epoch_millis() + valid_for_seconds * 1000`: an overflow
\* panics in a build with overflow checks and wraps in one without.
Expiration(now, valid, checks) ==
    LET ms == MulU64(valid, MillisPerSecond)
        sum == AddU64(now, ms.v)
    IN  IF checks /\ (ms.over \/ sum.over)
        THEN [panic |-> TRUE, exp |-> now]
        ELSE [panic |-> FALSE, exp |-> sum.v]

\* auth_doc up to the expiration time: the request is authorized, the
\* document exists and the body names valid_for_seconds.
AuthDocExpiry(now, valid) ==
    /\ auth' = [st |-> "expiry", checks |-> auth.checks, now |-> now, valid |-> valid,
                out |-> Expiration(now, valid, auth.checks)]
    /\ UNCHANGED <<docVars, wire, prefix, bucket, ls, call, live, del, web>>

NextExpiry == \E now \in Nows, valid \in Validities : AuthDocExpiry(now, valid)

\* The server as built: with or without overflow checks.
InitExpiry ==
    /\ InitDocs
    /\ wire = NoWire
    /\ prefix = None
    /\ bucket = <<>>
    /\ ls = [pc |-> "idle"]
    /\ call = [op |-> "-"]
    /\ live = FALSE
    /\ del = <<>>
    /\ web = [st |-> "-"]
    /\ \E c \in BOOLEAN : auth = [st |-> "-", checks |-> c]

SpecExpiry == InitExpiry /\ [][NextExpiry]_vars

\* ================================================================ claims

\* serve_internal has returned: the token has fired, every handler has
\* finished and doc_worker_tracker.wait() found every worker terminated.
ShutdownComplete ==
    /\ cancelled
    /\ \A p \in Procs : proc[p].pc = "idle"
    /\ \A i \in Insts : pw[i].pc \in {"none", "exit"} /\ gc[i].pc \in {"none", "exit"}

\* The step in which GC worker g shuts down and removes the entry.
GcEvicts(g) == gc[g].pc = "evict" /\ gc'[g].pc = "exit"

\* C1: the GC worker never shuts down or removes a document while a
\* connection holds a reference to its awareness, whenever that reference
\* was obtained.
C1_NoEvictionWithConnection ==
    [][\A g \in Insts :
          GcEvicts(g) =>
              \/ docs[inst[g].doc] = 0
              \/ inst[docs[inst[g].doc]].refs = 0]_vars

\* C2: concurrent get_or_create_doc calls on an absent id load the document
\* once, spawn one persistence worker for it, and every caller holds the
\* registry entry.
C2_LoadedOnce ==
    \A d \in DocIds :
        /\ Cardinality({i \in Insts : inst[i].doc = d /\ pw[i].pc # "none"}) <= 1
        /\ \A p \in Procs :
              (proc[p].pc = "open" /\ proc[p].doc = d) => docs[d] = proc[p].inst

\* C3: once shutdown has completed, the stored snapshot holds every update
\* that was applied to the registry document before the token fired.
C3_NoLossOnShutdown ==
    ShutdownComplete =>
        \A d \in DocIds : ~hist[d].deleted => acked[d] \subseteq store[d].kv

\* The step in which worker i leaves its loop.
PwExits(i) == pw[i].pc = "persist" /\ pw'[i].pc = "exit"

PwTerminates == \A i \in Insts : cancelled ~> (pw[i].pc \in {"none", "exit"})

\* C4 as claimed: once the token has fired every worker exits, without
\* waiting for a sleep, and the persist it exits on started after the token
\* fired.
C4_FinalPersistAfterCancel ==
    /\ PwTerminates
    /\ [][\A i \in Insts : (PwExits(i) /\ cancelled) => pw[i].fin]_vars

\* C4 as amended: once the token has fired every worker exits, without
\* waiting for a sleep; the persist it exits on started after the token
\* fired, unless its SyncKv had been shut down and the worker was already in
\* its final persist.
C4_CancelEndsWorker ==
    /\ PwTerminates
    /\ [][\A i \in Insts : (PwExits(i) /\ cancelled) => (pw[i].fin \/ inst[i].shut)]_vars

C4_Witness ==
    \E i \in Insts : pw[i].pc = "exit" /\ cancelled /\ ~inst[i].shut /\ pw[i].snap = {}
                     /\ inst[i].data # {} /\ inst[i].data = store[inst[i].doc].kv

\* C5 as claimed: a persist of a worker that has persisted before starts at
\* least checkpoint_freq after the previous one.
C5_PersistsSpaced ==
    \A i \in Insts : (pw[i].pc = "persist" /\ pw[i].n >= 1) => pw[i].since >= Freq

\* C5 as amended: the same, for every persist that starts before the
\* cancellation token has fired.
C5_PersistsSpacedUntilCancel ==
    \A i \in Insts :
        (pw[i].pc = "persist" /\ pw[i].n >= 1 /\ ~pw[i].fin) => pw[i].since >= Freq

C5_Witness ==
    \E i \in Insts : /\ pw[i].pc = "persist" /\ pw[i].n >= 1 /\ ~pw[i].fin /\ ~pw[i].done
                     /\ pw[i].snap # {} /\ ~store[inst[i].doc].kv = pw[i].snap

\* The persist() executions in flight on the snapshot of document d.
PersistsInFlight(d) ==
    Cardinality({i \in Insts : inst[i].doc = d /\ pw[i].pc = "persist"})
    + Cardinality({p \in Procs : proc[p].doc = d /\ proc[p].pc \in {"persist", "copy_persist"}})

\* C6: no two persist() executions on one document's snapshot overlap,
\* whoever called them.
C6_NoOverlappingPersists == \A d \in DocIds : PersistsInFlight(d) <= 1

\* C7: a GC tick that finds the document without a connection for the second
\* time in a row goes on to evict it; the eviction leaves the id out of the
\* registry and doc_exists still true (the snapshot is in the store).
C7_IdleDocEvicted ==
    /\ [](\A g \in Insts : gc[g].idle >= GcThreshold => gc[g].pc = "evict")
    /\ [][\A g \in Insts :
            GcEvicts(g) =>
                /\ docs'[inst[g].doc] = 0
                /\ ~hist[inst[g].doc].deleted => store'[inst[g].doc].ex]_vars

C7_Witness ==
    \E g \in Insts : /\ gc[g].pc = "exit" /\ inst[g].shut /\ ~hist[inst[g].doc].deleted
                     /\ docs[inst[g].doc] = 0 /\ DocExists(inst[g].doc)

\* The step in which handler p's load_doc gets its document from the store.
Loads(p) == proc[p].pc = "load" /\ proc'[p].pc = "persist"

\* Worker i is not behind its schedule: no sleep of it that has elapsed and
\* no dirty signal at its select is waiting to be handled.
PwOnTime(i) ==
    /\ pw[i].pc = "throttle" => pw[i].timer > 0
    /\ pw[i].pc = "select" => (pw[i].timer > 0 /\ inst[i].chan = 0)

\* C8: a document loaded after an eviction holds every update that had been
\* applied to the evicted instance (also when the evicted instance's worker
\* is on time).
C8_ReloadRestoresAll ==
    [][\A p \in Procs :
          Loads(p) =>
              \A j \in Insts :
                  (inst[j].doc = proc[p].doc /\ inst[j].shut /\ PwOnTime(j))
                      => inst[j].data \subseteq inst'[proc[p].inst].data]_vars

\* C9: after its SyncKv was shut down, a persistence worker writes the map
\* once more and terminates, with no dirty signal and no cancellation needed.
C9_ShutdownEndsWorker ==
    /\ \A i \in Insts : inst[i].shut ~> (pw[i].pc = "exit")
    /\ [][\A i \in Insts :
            (pw[i].pc # "exit" /\ pw'[i].pc = "exit") =>
                (PwExits(i) /\ store'[inst[i].doc] = [ex |-> TRUE, kv |-> pw[i].snap])]_vars

C9_Witness ==
    \E i \in Insts : /\ inst[i].shut /\ pw[i].pc = "exit" /\ gc[i].pc = "exit"
                     /\ ~cancelled /\ ~hist[inst[i].doc].deleted
                     /\ inst[i].data # {} /\ store[inst[i].doc].kv = inst[i].data

\* C10: after delete_document has answered success, doc_exists stays false
\* until a request creates the document again.
C10_DeletedStaysDeleted == \A d \in DocIds : hist[d].delDone => ~DocExists(d)

C12_FailedPersistRetried ==
    /\ [][\A i \in Insts :
            (pw[i].pc = "persist" /\ ~pw[i].done /\ pw'[i].err)
                => (pw'[i].pc = "select" /\ pw'[i].timer = Freq)]_vars
    /\ [](\A i \in Insts :
            (pw[i].pc = "select" /\ pw[i].timer = 0) => ~NeedsThrottle(FALSE, pw[i].since))
    /\ \A i \in Insts : (pw[i].err /\ pw[i].pc # "exit") ~> (pw[i].pc = "persist")

C12_Witness ==
    \E i \in Insts : /\ pw[i].err /\ pw[i].pc = "select" /\ pw[i].timer = 0
                     /\ inst[i].chan = 0 /\ inst[i].dirty
                     /\ ~cancelled /\ ~inst[i].shut

\* C13: once the token has fired no GC worker decides to evict, shuts a
\* SyncKv down or removes a registry entry.
C13_NoEvictionAfterCancel ==
    [][\A g \in Insts :
          ((gc[g].pc = "sleep" /\ gc'[g].pc = "evict") \/ GcEvicts(g)) => ~cancelled]_vars

\* The step in which handler p's copy_document calls store.copy_document.
CopiesStore(p) == proc[p].pc = "copy_store" /\ proc'[p].pc = "idle"

\* C14: when the source was in the registry at the request, the snapshot
\* that store.copy_document copies holds everything the source held at the
\* request.
C14_CopyHasLatest ==
    [][\A p \in Procs :
          (CopiesStore(p) /\ proc[p].inst # 0 /\ ~hist[proc[p].doc].deleted)
              => proc[p].snap \subseteq store[proc[p].doc].kv]_vars

\* The step in which handler p answers res.
Answers(p, res) == proc[p].pc = "idle" /\ proc'[p].pc = res

\* C15: auth_doc, the asset endpoints, delete_document and copy_document
\* answer NotFound only for a document whose snapshot is not in the store
\* (documents that were never deleted are enough to tell).
C15_NotFoundOnlyWhenAbsent ==
    [][\A p \in Procs :
          (/\ Answers(p, "notfound")
           /\ proc'[p].kind \in {"auth", "assets", "delete", "copy"}
           /\ ~hist[proc'[p].doc].deleted)
              => ~store[proc'[p].doc].ex]_vars

\* C16: an update request that is not Full is answered Forbidden and
\* never gets further: nothing is loaded, inserted, spawned or modified.  A
\* Full request that loads the document applies its update to it.
C16_UpdateNeedsFull ==
    /\ [](\A p \in Procs : proc[p].kind = "update_ro" => proc[p].pc = "forbidden")
    /\ [][\A p \in Procs :
            /\ Answers(p, "forbidden") =>
                  /\ proc'[p].kind = "update_ro"
                  /\ UNCHANGED <<docs, store, ninst, inst, pw, gc, nmut>>
            /\ (proc[p].pc = "persist" /\ proc[p].kind = "update" /\ proc'[p].pc = "idle") =>
                  /\ nmut' = nmut + 1
                  /\ nmut' \in inst'[docs'[proc[p].doc]].data]_vars

C16_Witness ==
    \E p \in Procs : /\ proc[p].pc = "forbidden" /\ proc[p].kind = "update_ro"
                     /\ docs[proc[p].doc] # 0
                     /\ inst[docs[proc[p].doc]].data # {}

C18_HandlerLeavesLoop ==
    [][\A p \in Procs :
          (proc[p].pc = "open" /\ proc'[p].pc # "open")
              => /\ proc'[p].pc = "idle"
                 /\ inst'[proc[p].inst].refs = inst[proc[p].inst].refs - 1]_vars

\* C19: the dirty callback of every mutation returns normally, whatever the
\* number of pending signals and also after the worker has exited.
C19_DirtySignalNeverFails ==
    [][\A i \in Insts :
          inst'[i].data # inst[i].data => ~SetPanics(inst[i], pw[i])]_vars

\* C20: the outbound queue never holds more than its bound; a frame produced
\* with the queue full is dropped and the handler stays in its loop with the
\* queue as it was; a frame produced after a drop is queued as soon as the
\* forwarding task has made room.
C20_OverflowDropped ==
    /\ [](\A p \in Procs : proc[p].out <= OutCap)
    /\ [][\A p \in Procs :
            /\ (proc[p].out >= OutCap /\ ~proc[p].warned /\ proc'[p].warned) =>
                  /\ proc'[p].last = "dropped"
                  /\ proc'[p].pc = proc[p].pc
                  /\ proc'[p].out = proc[p].out
            /\ (proc[p].fwd /\ proc[p].out < OutCap /\ proc[p].warned
                    /\ proc'[p].pc = proc[p].pc /\ proc'[p].last # proc[p].last) =>
                  /\ proc'[p].last = "queued"
                  /\ proc'[p].out = proc[p].out + 1]_vars

C20_Witness ==
    \E p \in Procs : /\ proc[p].pc = "open" /\ proc[p].fwd /\ proc[p].warned
                     /\ proc[p].last = "queued" /\ proc[p].out = OutCap

\* C21: within one connection the frames the transport has taken are frames
\* the callback produced, each at most once and in the order of production.
C21_FramesInOrder ==
    /\ \A i \in 1..Len(wire.sent) : wire.sent[i] \in 1..wire.made
    /\ \A i, j \in 1..Len(wire.sent) : i < j => wire.sent[i] < wire.sent[j]

\* Two frames written while a later one was lost.
C21_Witness ==
    /\ Len(wire.sent) >= 2
    /\ wire.made > Len(wire.sent)
    /\ ~wire.fwd
    /\ wire.q = <<>> /\ wire.hold = 0

\* C22: when copy_document(src, dst) has returned Ok, every object under
\* {src}/ with a relative suffix r has a counterpart {dst}/r with the same
\* bytes, whatever was at {dst}/r before, for every number of objects and
\* every paging of the listing.
C22_CopyComplete ==
    call.op = "copy" =>
        \A f \in DOMAIN bucket :
            LET r == StripPrefix(f, FullPrefix(prefix, call.key \o Slash))
            IN  (r.some /\ r.v # <<>>) =>
                    LET t == PrefixedKey(prefix, call.dst \o Slash \o r.v)
                    IN  t \in DOMAIN bucket /\ bucket[t] = bucket[f]

\* Two objects, listed over two pages, copied over a different object, under
\* a bucket prefix.
C22_Witness ==
    /\ call.op = "copy"
    /\ Len(call.res) >= 2
    /\ call.pages >= 2
    /\ call.over
    /\ prefix.some

\* The relative keys list_objects has to return: the keys of the bucket
\* under the full prefix, the prefix stripped.
Under(full) ==
    {StripPrefix(f, full).v : f \in {g \in DOMAIN bucket : StartsWith(g, full) /\ g # full}}

\* C23: list_objects returns every key under the prefix exactly once, the
\* prefix stripped, however the backend pages the listing, a truncated page
\* without continuation token included.
C23_ListsEachOnce ==
    call.op = "list" =>
        /\ {call.res[i] : i \in 1..Len(call.res)} = Under(call.full)
        /\ Len(call.res) = Cardinality(Under(call.full))

NoDoubleSlash(s) == \A i \in 1..(Len(s) - 1) : ~(s[i] = "/" /\ s[i + 1] = "/")

RECURSIVE Parent(_)
\* The parent prefix of a key: the key up to its last slash.
Parent(k) ==
    IF k = <<>> \/ k[Len(k)] = "/" THEN k ELSE Parent(SubSeq(k, 1, Len(k) - 1))

\* C24: under every prefix configuration the key prefixed_key builds has no
\* double slash where prefix and key meet, and list_objects under the parent
\* prefix of a key stored with set returns the key relative to that parent.
C24_KeyRoundTrip ==
    /\ call.op \in {"set", "remove", "list"} => NoDoubleSlash(call.full)
    /\ call.op = "list" =>
          \A k \in Keys :
              (/\ PrefixedKey(prefix, k) \in DOMAIN bucket
               /\ call.key \in {Parent(k), TrimEnd(Parent(k))}) =>
                  \E i \in 1..Len(call.res) :
                      call.res[i] = SubSeq(k, Len(Parent(k)) + 1, Len(k))

AssetsIn(b) == {f \in DOMAIN b : StartsWith(f, FullPrefix(prefix, AssetsPrefix(DocA)))}

\* C26: a delete_document that answers 200 reports as deleted_assets the
\* number of asset objects it removed; the only request for a document
\* with a snapshot and n assets reports success, data_deleted and n, and
\* leaves no object of the document behind.
C26_DeleteCounts ==
    \A h \in Dels :
        (del[h].pc = "done" /\ del[h].status = 200) =>
            /\ del[h].n = del[h].gone
            /\ (\A o \in Dels \ {h} : del[o] = NoDel) =>
                   /\ DelSuccess(del[h])
                   /\ del[h].data
                   /\ AssetsIn(bucket) = {}
                   /\ PrefixedKey(prefix, DataKey(DocA)) \notin DOMAIN bucket

\* C27: in every list_assets endpoint, multi-document and single-document,
\* each download URL is signed for the key {doc_id}/assets/{filename} of the
\* asset it is listed with, after one list_objects of {doc_id}/assets/.
C27_DownloadKeys ==
    (web.resp.op = "list" /\ web.resp.status = 200) =>
        /\ \A i \in 1..Len(web.resp.assets) :
              web.resp.assets[i].key = AssetKey(DocA, web.resp.assets[i].file)
        /\ \E i \in 1..Len(web.resp.calls) :
              web.resp.calls[i] = [op |-> "list", key |-> AssetsPrefix(DocA)]

\* C28: an upload URL is minted only for a content type whose top-level type
\* is image or video; for any other content type, and for one that does not
\* parse, every upload endpoint of a document that exists answers 400 and
\* asks the store for no URL.
C28_OnlyImagesAndVideos ==
    (web.resp.op = "presign" /\ web.resp.status # 404) =>
        IF web.resp.ct \in {"image/png", "video/mp4"}
        THEN web.resp.status = 200
        ELSE /\ web.resp.status = 400
             /\ \A i \in 1..Len(web.resp.calls) : web.resp.calls[i].op # "upload_url"

\* Positions of the dots of a file name.
Dots(f) == {i \in 1..Len(f) : f[i] = "."}

\* C29: list_assets reports as asset_id the file name up to its last dot,
\* which for a name {id}{.ext} issued by presign_upload_asset is {id}; a
\* name without a dot, or with none but a leading one, is reported whole.
C29_AssetIdBeforeLastDot ==
    (web.resp.op = "list" /\ web.resp.status = 200) =>
        \A i \in 1..Len(web.resp.assets) :
            LET a == web.resp.assets[i]
            IN  /\ IF Dots(a.file) \subseteq {1}
                   THEN a.asset_id = a.file
                   ELSE \E e \in 1..Len(a.file) :
                           /\ a.file = a.asset_id \o <<".">> \o SubSeq(a.file, e, Len(a.file))
                           /\ Dots(SubSeq(a.file, e, Len(a.file))) = {}
                /\ \A m \in web.issued : m.file = a.file => a.asset_id = m.id

\* A listing with an uploaded asset and with names of every other shape.
C29_Witness ==
    /\ web.resp.op = "list" /\ web.resp.status = 200
    /\ \E i \in 1..Len(web.resp.assets) :
          \E m \in web.issued : m.file = web.resp.assets[i].file
    /\ \A o \in OddNames : \E i \in 1..Len(web.resp.assets) : web.resp.assets[i].file = o

\* C30: auth_doc, the request authorized, answers NotFound for a document
\* that does not exist; for one that exists it returns its id, the url
\* {ws or wss}://{authority}/d/{doc_id}/ws, wss exactly under an https
\* url_prefix, the authority that of the prefix or else the request host,
\* and a token exactly when an authenticator is configured.
C30_ClientToken ==
    auth.resp.status \notin {0, 401} =>
        IF auth.resp.existed
        THEN /\ auth.resp.status = 200
             /\ auth.resp.doc_id \in DocIds
             /\ auth.resp.url.scheme =
                   (IF auth.url_prefix.some /\ auth.url_prefix.v.scheme = "https"
                    THEN "wss" ELSE "ws")
             /\ auth.resp.url.authority =
                   (IF auth.url_prefix.some THEN auth.url_prefix.v.authority
                    ELSE auth.resp.host)
             /\ auth.resp.url.path = <<"d", auth.resp.doc_id, "ws">>
             /\ auth.resp.token.some <=> auth.authn
        ELSE auth.resp.status = 404

\* C31: the entry a GC worker shuts down and removes was found without a
\* connection by the last two ticks of that worker, with no tick in between
\* that found a connection: both ticks came after the entry was inserted,
\* and a tick that counted against an earlier instance of the id does not
\* count towards evicting a later one.
C31_TwoIdleTicksPerInstance ==
    [][\A g \in Insts :
          (GcEvicts(g) /\ docs[inst[g].doc] # 0)
              => gc[g].obs = <<docs[inst[g].doc], docs[inst[g].doc]>>]_vars

\* The persistence workers of document d that are running on a SyncKv that
\* is not shut down.
LiveWorkers(d) ==
    {i \in Insts : inst[i].doc = d /\ pw[i].pc \notin {"none", "exit"} /\ ~inst[i].shut}

\* C32: for each doc id at most one persistence worker is running on a
\* SyncKv that is not shut down, and its SyncKv is the one of the registry
\* entry under that id.
C32_OneWorkerPerDoc ==
    \A d \in DocIds :
        /\ Cardinality(LiveWorkers(d)) <= 1
        /\ \A i \in LiveWorkers(d) : docs[d] = i

\* The step in which a put of worker j's persist lands in the store.
PutLands(j) == pw[j].pc = "persist" /\ pw'[j].pc \in {"select", "exit"} /\ ~pw'[j].err

\* C33: once a later instance of a doc id has been loaded and has written
\* its snapshot, no persist of an earlier instance (evicted or deleted)
\* writes {doc_id}/data.ysweet.
C33_OnlyNewestWrites ==
    [][\A j \in Insts :
          PutLands(j) =>
              \A i \in Insts :
                  (i > j /\ inst[i].doc = inst[j].doc) => pw[i].pc = "none"]_vars

\* C34: every update applied to a document, through a connection or an HTTP
\* update, is eventually in the stored snapshot of the document (unless the
\* document is deleted).
C34_MutationsReachStore ==
    \A m \in Muts, d \in DocIds :
        (\E i \in Insts : inst[i].doc = d /\ m \in inst[i].data)
            ~> (m \in store[d].kv \/ hist[d].deleted)

\* C35: once copy_document has put the source snapshot under the
\* destination id, the destination snapshot stays equal to it as long as no
\* client has mutated the destination, also when the destination was in the
\* registry at the copy (runs in which no client has sent any update are
\* enough to tell).
C35_CopyStays ==
    [][\A dst \in DocIds :
          (store[dst] = store[SrcId] /\ nmut' = 0) => store'[dst] = store'[SrcId]]_vars

\* C36: a connection whose inbound stream has ended is eventually left by
\* its handler, which drops its awareness reference, whether or not the
\* token ever fires.
C36_EndedStreamReleases ==
    \A p \in Procs : (proc[p].pc = "ended") ~> (proc[p].pc = "idle")

\* C37: when the only delete_document request for a document has answered
\* an error, the document is as it was: still in the registry if it was
\* there, its snapshot still in the store (it was there when doc_exists
\* passed with the document not in the registry), and no asset removed.
C37_FailedDeleteChangesNothing ==
    \A h \in Dels :
        (/\ del[h].pc = "done"
         /\ del[h].status >= 400
         /\ \A o \in Dels \ {h} : del[o] = NoDel)
            => /\ del[h].mem => live
               /\ (del[h].status = 500 /\ ~del[h].mem)
                      => PrefixedKey(prefix, DataKey(DocA)) \in DOMAIN bucket
               /\ del[h].gone = 0

\* C38: no step of an update request whose body cannot be applied changes
\* the registry or the store or spawns a worker: the request does not
\* create, load or persist a document.
C38_BadUpdateChangesNothing ==
    [][\A p \in Procs :
          (/\ proc'[p] # proc[p]
           /\ proc[p].kind = "update_bad" \/ proc'[p].kind = "update_bad")
              => UNCHANGED <<docs, store, pw, gc>>]_vars

\* The step in which handler p's load_doc fails.
LoadFails(p) == proc[p].pc \in {"load", "persist"} /\ proc'[p].pc = "error"

\* C39: a load_doc that fails, in DocWithSyncKv::new or in its initial
\* persist, makes the request answer an error and inserts and spawns
\* nothing; so every registry entry and every worker belongs to a document
\* whose initial persist has put its snapshot into the store.
C39_FailedLoadInsertsNothing ==
    /\ [][\A p \in Procs : LoadFails(p) => UNCHANGED <<docs, store, pw, gc>>]_vars
    /\ [](\A d \in DocIds : docs[d] # 0 => store[d].ex)
    /\ [](\A i \in Insts :
            (pw[i].pc # "none" \/ gc[i].pc # "none")
                => (inst[i].doc # "none" /\ store[inst[i].doc].ex))

C39_Witness ==
    \E p \in Procs : /\ proc[p].pc = "error" /\ proc[p].kind \in {"ws", "update"}
                     /\ docs[proc[p].doc] = 0 /\ ~store[proc[p].doc].ex
                     /\ ninst = 1 /\ inst[1] = NoInst
                     /\ pw[1].pc = "none" /\ gc[1].pc = "none"

\* C40: for every valid_for_seconds a client can name, auth_doc computes
\* now + valid_for_seconds * 1000 without overflow of the u64: it does not
\* panic and the expiration is never earlier than the current time.
C40_ExpirationNotBeforeNow ==
    auth.st = "expiry" => (~auth.out.panic /\ ~LessU64(auth.out.exp, auth.now))

====
